---------------------------- MODULE Spec2Model ----------------------------
(***************************************************************************)
(* Model of the BMS secure storage engine                                  *)
(* (src/src/services/secure_database.py, src/src/utils/encryption.py,      *)
(* src/src/utils/compression.py, src/src/config.py).                       *)
(*                                                                         *)
(* Python strings are modelled as terms ("texts") that record how the      *)
(* string was produced, so that decrypting, base64-decoding, gunzipping    *)
(* and JSON-parsing a string can fail exactly where the library calls      *)
(* fail:                                                                   *)
(*   [k |-> "empty"]           the empty string ""                         *)
(*   [k |-> "raw",  s |-> n]   a non-empty string that is not JSON, not    *)
(*                             base64 of a gzip stream, not a Fernet token *)
(*   [k |-> "json", v |-> v]   json.dumps(v)                               *)
(*   [k |-> "repr", v |-> v]   str(v) where that is not JSON text          *)
(*   [k |-> "gz",   of |-> t]  base64.b64encode(gzip.compress(t))          *)
(*   [k |-> "enc",  of |-> t]  urlsafe_b64encode(Fernet.encrypt(t))        *)
(* Python values are records tagged by t: none, num, str, list, dict, obj  *)
(* (obj: an object json.dumps cannot serialise).                           *)
(***************************************************************************)
EXTENDS Naturals, Integers, Sequences, FiniteSets, TLC

-----------------------------------------------------------------------------
(* Python values *)

None == [t |-> "none"]

Num(n) == [t |-> "num", n |-> n]

Str(s) == [t |-> "str", s |-> s]

List(items) == [t |-> "list", items |-> items]

Dict(f) == [t |-> "dict", f |-> f]

Obj == [t |-> "obj"]

NoFields == [x \in {} |-> None]

EmptyDict == Dict(NoFields)

EmptyList == List(<< >>)

(* Python strings *)

Empty == [k |-> "empty"]

Raw(s) == [k |-> "raw", s |-> s]

Json(v) == [k |-> "json", v |-> v]

\* Raw strings made only of characters outside the base64 alphabet:
\* base64.b64decode (validate=False) discards them all and returns b"".
NonB64Raw == {"!?"}

RECURSIVE Serializable(_)
\* json.dumps(v) returns (TRUE) or raises TypeError (FALSE).
Serializable(v) ==
    CASE v.t = "list" -> \A i \in DOMAIN v.items : Serializable(v.items[i])
      [] v.t = "dict" -> \A key \in DOMAIN v.f : Serializable(v.f[key])
      [] v.t = "obj"  -> FALSE
      [] OTHER        -> TRUE

RECURSIVE ReprIsJson(_)
\* str(v) is the same text as json.dumps(v): numbers, and lists and empty
\* dicts built from them (str() writes None, 'single quotes', True).
ReprIsJson(v) ==
    CASE v.t = "num"  -> TRUE
      [] v.t = "list" -> \A i \in DOMAIN v.items : ReprIsJson(v.items[i])
      [] v.t = "dict" -> DOMAIN v.f = {}
      [] OTHER        -> FALSE

\* str(value) for a value that is not a str
Repr(v) == IF ReprIsJson(v) THEN Json(v) ELSE [k |-> "repr", v |-> v]

\* str(value)
PyStr(v) == IF v.t = "str" THEN v.s ELSE Repr(v)

RECURSIVE NoB64Chars(_)
RECURSIVE TextNoB64(_)
\* json.dumps(v) holds no character of the base64 alphabet: "[]", "{}",
\* "[[]]", '""' ... (the keys of the dicts of this model hold letters).
NoB64Chars(v) ==
    CASE v.t = "list" -> \A i \in DOMAIN v.items : NoB64Chars(v.items[i])
      [] v.t = "dict" -> DOMAIN v.f = {}
      [] v.t = "str"  -> TextNoB64(v.s)
      [] OTHER        -> FALSE

TextNoB64(txt) ==
    CASE txt.k = "empty" -> TRUE
      [] txt.k = "raw"   -> txt.s \in NonB64Raw
      [] txt.k = "json"  -> NoB64Chars(txt.v)
      [] OTHER           -> FALSE

RECURSIVE TextDepth(_)
\* number of compression/encryption layers of a text, through the strings
\* held by a str value
TextDepth(txt) ==
    CASE txt.k \in {"gz", "enc"} -> 1 + TextDepth(txt.of)
      [] txt.k = "json" /\ txt.v.t = "str" -> TextDepth(txt.v.s)
      [] OTHER -> 0

-----------------------------------------------------------------------------
(* Library calls: result records [ok |-> TRUE, r |-> x] or [ok |-> FALSE]  *)
(* (the call raised).                                                      *)

Ok(x) == [ok |-> TRUE, r |-> x]

Raised == [ok |-> FALSE]

\* CompressionManager.compress_string followed by base64.b64encode(..).decode
compress_string(data) ==
    IF data = Empty THEN Empty ELSE [k |-> "gz", of |-> data]

\* base64.b64decode followed by CompressionManager.decompress_string (gzip)
decompress_string(txt) ==
    CASE txt.k = "gz"   -> Ok(txt.of)
      [] TextNoB64(txt) -> Ok(Empty)
      [] OTHER          -> Raised

encrypt_string(plaintext) ==
    IF plaintext = Empty THEN Empty ELSE [k |-> "enc", of |-> plaintext]

decrypt_string(encrypted_text) ==
    CASE encrypted_text.k = "empty" -> Ok(Empty)
      [] encrypted_text.k = "enc"   -> Ok(encrypted_text.of)
      [] OTHER                      -> Raised

\* json.loads
json_loads(txt) == IF txt.k = "json" THEN Ok(txt.v) ELSE Raised

-----------------------------------------------------------------------------
(* Secure Codec Pipeline: SecureDatabaseManager._secure_data and           *)
(* _unsecure_data.  The flags self.enable_encryption and                   *)
(* self.enable_compression are passed as parameters.                       *)

\* Ok(payload), or Raised when json.dumps raises
_secure_data(data, encryption, compression) ==
    IF data = None THEN Ok(Empty)
    ELSE IF data.t \in {"dict", "list"} /\ ~Serializable(data) THEN Raised
    ELSE LET json_data == IF data.t \in {"dict", "list"}
                          THEN Json(data) ELSE PyStr(data)
             processed_data == IF compression
                               THEN compress_string(json_data) ELSE json_data
         IN  Ok(IF encryption THEN encrypt_string(processed_data)
                ELSE processed_data)

\* the candidate list of _unsecure_data, in the order it is tried
attempts(encryption, compression) ==
    << <<encryption, compression>>, <<FALSE, compression>>,
       <<encryption, FALSE>>, <<FALSE, FALSE>> >>

\* a loop body that goes on to the next candidate when the text is not JSON
TryCandidateStrict(secured_data, try_encryption, try_compression) ==
    LET dec == IF try_encryption THEN decrypt_string(secured_data)
               ELSE Ok(secured_data)
    IN  IF ~dec.ok THEN Raised
        ELSE LET unz == IF try_compression THEN decompress_string(dec.r)
                        ELSE Ok(dec.r)
             IN  IF ~unz.ok THEN Raised ELSE json_loads(unz.r)

\* One pass of the loop body: Ok(value) when the candidate returns,
\* Raised when it ends in "continue".
TryCandidate(secured_data, try_encryption, try_compression) ==
    LET dec == IF try_encryption THEN decrypt_string(secured_data)
               ELSE Ok(secured_data)
    IN  IF ~dec.ok THEN Raised
        ELSE LET unz == IF try_compression THEN decompress_string(dec.r)
                        ELSE Ok(dec.r)
             IN  IF ~unz.ok THEN Raised
                 ELSE LET parsed == json_loads(unz.r)
                      IN  Ok(IF parsed.ok THEN parsed.r ELSE Str(unz.r))

RECURSIVE FirstAccepted(_, _, _)
FirstAccepted(secured_data, cands, i) ==
    IF i > Len(cands) THEN Raised
    ELSE LET got == TryCandidate(secured_data, cands[i][1], cands[i][2])
         IN  IF got.ok THEN got ELSE FirstAccepted(secured_data, cands, i + 1)

\* json_data of one candidate: what its decrypt and decompress steps leave
\* for json.loads (183-200); Raised when a step ends in "continue"
CandidateText(secured_data, try_encryption, try_compression) ==
    LET dec == IF try_encryption THEN decrypt_string(secured_data)
               ELSE Ok(secured_data)
    IN  IF ~dec.ok THEN Raised
        ELSE IF try_compression THEN decompress_string(dec.r) ELSE dec

\* position in the candidate list at which the loop returns, 0 when it
\* runs to its end
RECURSIVE ReturnsAt(_, _, _)
ReturnsAt(secured_data, cands, i) ==
    IF i > Len(cands) THEN 0
    ELSE IF TryCandidate(secured_data, cands[i][1], cands[i][2]).ok THEN i
    ELSE ReturnsAt(secured_data, cands, i + 1)

_unsecure_data(secured_data, encryption, compression) ==
    IF secured_data = Empty THEN None
    ELSE LET got == FirstAccepted(secured_data,
                                  attempts(encryption, compression), 1)
             whole == json_loads(secured_data)
         IN  IF got.ok THEN got.r
             ELSE IF whole.ok THEN whole.r ELSE Str(secured_data)

-----------------------------------------------------------------------------
(* Bounds and input sets *)

\* longest list drawn as a codec input
MaxItems == 2

Atoms == {Num(1), Str(Raw("X")), EmptyList, EmptyDict}

SeqsUpTo(S, n) == UNION {[1..m -> S] : m \in 0..n}

CodecLists == {List(s) : s \in SeqsUpTo(Atoms, MaxItems)}

CodecDicts == {EmptyDict} \cup {Dict([id |-> a]) : a \in Atoms}
              \cup {Dict([id |-> Num(1), docs |-> l]) : l \in CodecLists}

\* "", "light", "7", "[]", "!?"
CodecStrings == {Str(Empty), Str(Raw("light")), Str(Json(Num(7))),
                 Str(Json(EmptyList)), Str(Raw("!?"))}

CodecValues == CodecLists \cup CodecDicts \cup CodecStrings

-----------------------------------------------------------------------------
(* App Data Store: the app_data table, save_app_data, load_app_data        *)

\* the keys clear_all_data writes (secure_database.py 563-570)
ClearKeys == {"handovers", "requirements", "issues", "test_suites",
              "recent_activities", "theme_mode"}

\* The sections of the model: one of the five list sections clear_all_data
\* writes (requirements, issues, test_suites and recent_activities are
\* written exactly like handovers), theme_mode with its own branch, and one
\* section only the application saves (main.py 245).
Keys == {"handovers", "theme_mode", "benches"}

\* the order in which a dict's items are iterated (one fixed order stands
\* for the insertion order of the dicts; main.py 226-245 has this one)
KeyOrder == <<"theme_mode", "handovers", "benches">>

\* no row for a key
Absent == [k |-> "absent"]

NoRows == [key \in Keys |-> Absent]

InKeys(key, f) == key \in DOMAIN f

\* app_data.items()
ItemsOf(app_data) ==
    SelectSeq(KeyOrder, LAMBDA key : InKeys(key, app_data.f))

\* lines 283-287: theme_mode is saved as str(value)
SectionInput(key, value) ==
    IF key = "theme_mode" THEN Str(PyStr(value)) ELSE value

RECURSIVE ExecuteWrites(_, _, _, _, _, _, _)
\* The loop of lines 282-292 from item i on, inside the open transaction:
\* [ok, rows] where rows is the transaction's view.  The failAt-th INSERT
\* raises; an unserialisable section raises in _secure_data.
ExecuteWrites(rows, app_data, items, i, encryption, compression, failAt) ==
    IF i > Len(items) THEN [ok |-> TRUE, rows |-> rows]
    ELSE LET key == items[i]
             sec == _secure_data(SectionInput(key, app_data.f[key]),
                                 encryption, compression)
         IN  IF ~sec.ok \/ failAt = i THEN [ok |-> FALSE, rows |-> rows]
             ELSE ExecuteWrites([rows EXCEPT ![key] = sec.r], app_data, items,
                                i + 1, encryption, compression, failAt)

\* A scope of _get_connection_with_retry that ends without commit leaves
\* the committed rows: conn.rollback() (244) or conn.close() (234, 251).
NoRollback(committed, working) == working

Rollback(committed, working) == committed

\* Where a scoped connection fails: nowhere, in the acquisition (retry bound
\* exhausted or another error), in a statement of the block, in the commit.
Faults == {"none", "acquire", "execute", "commit"}

\* DataIntegrityManager.create_checksum: a hash, modelled by what it hashes
create_checksum(d) == [k |-> "sha256", of |-> Json(d)]

NoMeta == [k |-> "absent"]

\* the row _update_security_metadata writes
MetaRow(value, encryption, compression) ==
    LET d == IF value.t = "dict" THEN value ELSE Dict([data |-> value])
    IN  [k |-> "meta", encryption_enabled |-> encryption,
         compression_enabled |-> compression,
         checksum |-> IF d = EmptyDict THEN Empty ELSE create_checksum(d)]

RECURSIVE UpdateMetadata(_, _, _, _, _, _, _, _)
\* lines 295-301: the metadata loop; the metaFailAt-th item raises and ends
\* the loop (0: none raises).
UpdateMetadata(meta, app_data, items, i, encryption, compression, checksums, metaFailAt) ==
    IF i > Len(items) \/ metaFailAt = i THEN meta
    ELSE LET key == items[i]
             value == app_data.f[key]
             next == IF value.t \in {"dict", "list"} /\ checksums
                     THEN [meta EXCEPT ![key] =
                              MetaRow(value, encryption, compression)]
                     ELSE meta
         IN  UpdateMetadata(next, app_data, items, i + 1, encryption,
                            compression, checksums, metaFailAt)

\* save_app_data: [ret, rows, table_exists, security_metadata] after the call
save_app_data(rows, tbl, meta, app_data, encryption, compression, checksums, fault, failAt, metaFailAt) ==
    IF fault = "acquire" \/ (fault = "execute" /\ failAt = 0)
    THEN [ret |-> FALSE, rows |-> rows, table_exists |-> tbl,
          security_metadata |-> meta]
    ELSE LET blk == IF app_data.t # "dict"
                    THEN [ok |-> FALSE, rows |-> rows]
                    ELSE ExecuteWrites(rows, app_data, ItemsOf(app_data), 1,
                                       encryption, compression,
                                       IF fault = "execute" THEN failAt ELSE 0)
             done == blk.ok /\ fault # "commit"
         IN  [ret |-> done,
              rows |-> IF done THEN blk.rows ELSE Rollback(rows, blk.rows),
              table_exists |-> TRUE,
              security_metadata |->
                  IF done
                  THEN UpdateMetadata(meta, app_data, ItemsOf(app_data), 1,
                                      encryption, compression, checksums,
                                      metaFailAt)
                  ELSE meta]

\* a load whose loop skips the sections that come back as unparsed text
LoadParsedOnly(rows, tbl, encryption, compression, fault) ==
    IF fault # "none" \/ ~tbl THEN NoFields
    ELSE [key \in {x \in Keys :
                     /\ rows[x] # Absent
                     /\ _unsecure_data(rows[x], encryption,
                                       compression).t # "str"} |->
             _unsecure_data(rows[key], encryption, compression)]

\* load_app_data: the dict it returns, as a function from keys to values
load_app_data(rows, tbl, encryption, compression, fault) ==
    IF fault # "none" \/ ~tbl THEN NoFields
    ELSE [key \in {x \in Keys : rows[x] # Absent} |->
             _unsecure_data(rows[key], encryption, compression)]

\* _verify_data_integrity (99-117) for the section key holding value
_verify_data_integrity(meta, key, value, checksums) ==
    LET d == IF value.t = "dict" THEN value ELSE Dict([data |-> value])
    IN  IF ~checksums \/ value.t \notin {"dict", "list"} \/ d = EmptyDict
        THEN TRUE
        ELSE IF meta[key] = NoMeta THEN TRUE
        ELSE meta[key].checksum = create_checksum(d)

\* a load that leaves out the sections whose checksum does not verify
LoadStoreVerified(rows, tbl, meta, encryption, compression, checksums, fault) ==
    LET got == load_app_data(rows, tbl, encryption, compression, fault)
    IN  [key \in {x \in DOMAIN got :
                     _verify_data_integrity(meta, x, got[x], checksums)}
            |-> got[key]]

\* load_app_data on a store with both tables: security_metadata is not read
\* (309-346 hold no query on it and no call of _verify_data_integrity)
LoadStore(rows, tbl, meta, encryption, compression, checksums, fault) ==
    load_app_data(rows, tbl, encryption, compression, fault)

-----------------------------------------------------------------------------
VARIABLES
    enable_encryption,   \* SecureDatabaseManager.enable_encryption
    enable_compression,  \* SecureDatabaseManager.enable_compression
    enable_checksums,    \* SecureDatabaseManager.enable_checksums
    plain,               \* codec: the value handed to _secure_data
    written_under,       \* codec: <<encryption, compression>> at encode time
    payload,             \* codec: the payload _secure_data returned
    decoded,             \* codec: what _unsecure_data returned
    stage,               \* codec: "new", "stored", "decoded"
    rows,                \* app_data table: key -> payload, or Absent
    table_exists,        \* the app_data table has been created
    security_metadata,   \* security_metadata table: key -> row, or NoMeta
    backup_file,         \* content of the backup artifact, or NoFile
    snapshot,            \* what load_app_data returned at backup time
    last,                \* the last call: operation, result, argument
    max_retries,         \* _get_connection_with_retry: the parameter
    attempt,             \* the loop variable of line 222
    conn,                \* the local conn: "None", "open" or "closed"
    pc,                  \* where the generator or the with-statement stands
    attempts_made,       \* acquisitions started (executions of line 224)
    sleeps,              \* the waits of line 237, in milliseconds
    block_runs,          \* times the caller's block was entered
    exited,              \* the with-statement has left the block
    tx,                  \* the block's writes: none, pending, committed, ...
    result,              \* how the with-statement ended
    all_locked,          \* every acquisition so far reported the lock
    raised,              \* the error last raised inside the try
    thread_pc,           \* two threads on one manager: where each stands
    thread_data,         \* the app_data each thread is saving
    thread_i,            \* the item of app_data.items() each thread is at
    thread_text,         \* _secure_data's processed_data in each thread
    thread_written,      \* the payloads each thread has INSERTed
    thread_ret,          \* what each thread's call returned
    writer,              \* the thread whose transaction holds the write lock
    update_args,         \* the flags handed to update_security_settings
    encrypted_data,      \* SecureStorageManager: a record's payload bytes
    checksum,            \* SecureStorageManager: its encryption_checksum
    modified,            \* bytes of the payload changed after it was stored
    record_stage,        \* "idle", "new", "stored", "read"
    record_result,       \* what _decrypt_and_decompress_data did
    current_user,        \* main.py: the role of the logged-in user, or "None"
    dialog,              \* main.py: the modal confirmation dialog that is open
    password,            \* SecureStorageManager: EncryptionManager.password
    handovers_table,     \* SecureStorageManager: the rows of table handovers
    listed,              \* what the last get_handovers returned
    last_password_change,\* security_settings.last_password_change (a clock)
    storage_op,          \* the SecureStorageManager method called last
    encryption_password, \* BackupManager: the constructor's password, or "none"
    source_db,           \* the bytes of the file at source_db_path
    backup_dir,          \* the files under BackupManager.backup_dir
    timestamp,           \* datetime.now() of create_backup, as a counter
    last_backup,         \* the last create_backup: what it returned and copied
    target_db,           \* the bytes of the file at target_db_path, or NoTarget
    restored,            \* the last restore_backup: its password and what it returned
    user_row,            \* AuthService: the user's row of table users
    user_sessions,       \* the user's rows of user_sessions, by created_at
    clock,               \* datetime.now(), in minutes
    logins_started,      \* login calls that reached the session limit check
    login_ret,           \* what the last login call was given and returned
    wrong_streak,        \* wrong passwords since the last successful login
    login_pc,            \* concurrent logins: where each call stands
    login_local          \* concurrent logins: each call's user and locals

flagVars == <<enable_encryption, enable_compression, enable_checksums>>

codecVars == <<plain, written_under, payload, decoded, stage>>

storeVars == <<rows, table_exists, security_metadata, backup_file, snapshot,
               last>>

retryVars == <<max_retries, attempt, conn, pc, attempts_made, sleeps,
               block_runs, exited, tx, result, all_locked, raised>>

concVars == <<thread_pc, thread_data, thread_i, thread_text, thread_written,
              thread_ret, writer, update_args>>

recordVars == <<encrypted_data, checksum, modified, record_stage,
                record_result>>

\* the state of the other components, which no operation of
\* SecureDatabaseManager touches
authVars == <<current_user, dialog>>

storageVars == <<password, handovers_table, listed, last_password_change,
                 storage_op>>

fileVars == <<encryption_password, source_db, backup_dir, timestamp,
              last_backup, target_db, restored>>

loginVars == <<user_row, user_sessions, clock, logins_started, login_ret,
               wrong_streak, login_pc, login_local>>

extVars == <<storageVars, fileVars, loginVars>>

auxVars == <<recordVars, authVars, extVars>>

\* what the operations of the store leave alone
offStore == <<codecVars, retryVars, concVars, auxVars>>

vars == <<flagVars, codecVars, storeVars, retryVars, concVars, auxVars>>

-----------------------------------------------------------------------------
(* Backup artifacts *)

NoFile == [k |-> "nofile"]

\* the BackupManifest of backup_database (438-443); the timestamp and the
\* storage statistics are not read by restore_database and are left out
Manifest(app_data) ==
    Dict([version |-> Str(Raw("1.0")), app_data |-> Dict(app_data)])

\* lines 446-455 with BACKUP_COMPRESSION and BACKUP_ENCRYPTION (config.py
\* 165-166, both True): compress_dict, b64encode, encrypt_string
BackupContent(backup_data) ==
    encrypt_string(compress_string(Json(backup_data)))

\* restore_database reading backup_data.get('app_data', backup_data)
\* instead of validating the manifest
ReadManifestUnchecked(file) ==
    IF file = NoFile THEN Raised
    ELSE LET dec == decrypt_string(file)
         IN  IF ~dec.ok THEN Raised
             ELSE LET unz == decompress_string(dec.r)
                  IN  IF ~unz.ok THEN Raised
                      ELSE LET parsed == json_loads(unz.r)
                           IN  IF ~parsed.ok THEN Raised
                               ELSE IF parsed.r.t # "dict" THEN Raised
                               ELSE IF ~InKeys("app_data", parsed.r.f)
                                    THEN Ok(parsed.r)
                               ELSE Ok(parsed.r.f["app_data"])

\* restore_database 477-498: Ok(the manifest's app_data) or Raised
ReadManifest(file) ==
    IF file = NoFile THEN Raised
    ELSE LET dec == decrypt_string(file)
         IN  IF ~dec.ok THEN Raised
             ELSE LET unz == decompress_string(dec.r)
                  IN  IF ~unz.ok THEN Raised
                      ELSE LET parsed == json_loads(unz.r)
                           IN  IF ~parsed.ok THEN Raised
                               ELSE IF parsed.r.t # "dict" THEN Raised
                               ELSE IF ~InKeys("app_data", parsed.r.f)
                                    THEN Raised
                               ELSE Ok(parsed.r.f["app_data"])

-----------------------------------------------------------------------------
(* Bounds and inputs of the store *)

\* deepest nesting of compression/encryption layers a stored payload may
\* reach (a payload read back as a string and saved again is wrapped again)
MaxDepth == 3

Handover1 == Dict([id |-> Num(1), docs |-> EmptyList])

\* app_data dicts handed to save_app_data: the application's sections, and
\* a dict whose second section holds an object json.dumps cannot serialise
SaveInputs ==
    { Dict([theme_mode |-> Str(Raw("dark")),
            handovers |-> List(<<Handover1>>)]),
      Dict([theme_mode |-> Str(Raw("dark")), handovers |-> List(<<Obj>>)]) }

\* a dict with a section clear_all_data does not write
BenchInputs == { Dict([benches |-> List(<<Handover1>>)]) }

\* an empty_data with an entry for every section the application saves
EmptyDataEverySection ==
    Dict([key \in Keys |->
             IF key = "theme_mode" THEN Str(Raw("light")) ELSE EmptyList])

\* an empty_data without the theme_mode entry
EmptyDataListsOnly == Dict([key \in {"handovers"} |-> EmptyList])

\* the empty_data of clear_all_data (563-570), on the sections of the model
empty_data ==
    Dict([key \in ClearKeys \cap Keys |->
             IF key = "theme_mode" THEN Str(Raw("light")) ELSE EmptyList])

\* files handed to restore_database that backup_database did not write:
\* a truncated file, a token that is not a compressed stream, a stream that
\* is not JSON, a manifest without app_data, a manifest that is a list, a
\* manifest whose app_data is a list
ForeignFiles ==
    { Raw("truncated"),
      encrypt_string(Raw("not-compressed")),
      encrypt_string(compress_string(Raw("not-json"))),
      encrypt_string(compress_string(
          Json(Dict([handovers |-> EmptyList])))),
      encrypt_string(compress_string(Json(List(<<Num(1)>>)))),
      BackupContent(Dict([version |-> Str(Raw("1.0")),
                          app_data |-> List(<<Num(1)>>)])) }

WithinDepth(rs) ==
    {key \in Keys : rs[key] # Absent /\ TextDepth(rs[key]) > MaxDepth} = {}

\* the record of a call: the operation, whether it reported success, the
\* value it returned, where its scoped connection failed, its argument
Call(op, ret, out, fault, arg) ==
    [op |-> op, ret |-> ret, out |-> out, fault |-> fault, arg |-> arg]

NoCall == Call("init", TRUE, None, "none", None)

\* where a read-only scope fails: every failure of load_app_data's scope
\* ends in the same "return {}" (344-346)
LoadFaults == {"none", "acquire"}

\* the item at which the metadata loop raises (0: it runs through)
MetaFaults == {0}

-----------------------------------------------------------------------------
(* Init: the state after SecureDatabaseManager.__init__ on a new database  *)
(* (flags from SecurityConfig, config.py 160-169).                         *)

StoreInit ==
    /\ rows = NoRows
    /\ table_exists = FALSE
    /\ security_metadata = [key \in Keys |-> NoMeta]
    /\ backup_file = NoFile
    /\ snapshot = [taken |-> FALSE, app_data |-> NoFields, clean |-> FALSE]
    /\ last = NoCall

\* max_retries=5 (line 219)
DefaultMaxRetries == 5

\* the saving thread and the thread in update_security_settings
Threads == {"save", "update"}

\* nobody is logged in (main.py 35)
AuthIdle ==
    /\ current_user = "None"
    /\ dialog = "none"

\* no SecureStorageManager is being followed
StorageIdle ==
    /\ password = "none"
    /\ handovers_table = << >>
    /\ listed = << >>
    /\ last_password_change = 0
    /\ storage_op = "idle"

\* no BackupManager has been constructed
FilesIdle ==
    /\ encryption_password = "none"
    /\ source_db = [k |-> "none"]
    /\ backup_dir = << >>
    /\ timestamp = 0
    /\ last_backup = [k |-> "none"]
    /\ target_db = [k |-> "none"]
    /\ restored = [k |-> "none"]

\* the two callers of AuthService.login that run side by side
LoginThreads == {"a", "b"}

\* a caller outside login
NoLocals == [k |-> "none"]

\* no AuthService has been constructed
LoginIdle ==
    /\ user_row = [k |-> "none"]
    /\ user_sessions = << >>
    /\ clock = 0
    /\ logins_started = 0
    /\ login_ret = [k |-> "none"]
    /\ wrong_streak = 0
    /\ login_pc = [th \in LoginThreads |-> "idle"]
    /\ login_local = [th \in LoginThreads |-> NoLocals]

ExtIdle == StorageIdle /\ FilesIdle /\ LoginIdle

\* no record of SecureStorageManager is being followed
RecordIdle ==
    /\ encrypted_data = << >>
    /\ checksum = [k |-> "none"]
    /\ modified = 0
    /\ record_stage = "idle"
    /\ record_result = "none"

\* no concurrent calls are being followed
ConcIdle ==
    /\ thread_pc = [t \in Threads |-> "idle"]
    /\ thread_data = [t \in Threads |-> NoFields]
    /\ thread_i = [t \in Threads |-> 1]
    /\ thread_text = [t \in Threads |-> Empty]
    /\ thread_written = [t \in Threads |-> NoRows]
    /\ thread_ret = [t \in Threads |-> "none"]
    /\ writer = "none"
    /\ update_args = <<TRUE, TRUE>>

\* no scoped connection is being followed
RetryIdle ==
    /\ max_retries = DefaultMaxRetries
    /\ attempt = 0
    /\ conn = "None"
    /\ pc = "idle"
    /\ attempts_made = 0
    /\ sleeps = << >>
    /\ block_runs = 0
    /\ exited = FALSE
    /\ tx = "none"
    /\ result = "none"
    /\ all_locked = TRUE
    /\ raised = "none"

CodecIdle ==
    /\ plain = None
    /\ written_under = <<TRUE, TRUE>>
    /\ payload = Empty
    /\ decoded = None
    /\ stage = "idle"

Init ==
    /\ enable_encryption = TRUE
    /\ enable_compression = TRUE
    /\ enable_checksums = TRUE
    /\ StoreInit
    /\ CodecIdle
    /\ RetryIdle
    /\ ConcIdle
    /\ RecordIdle
    /\ AuthIdle
    /\ ExtIdle

\* the state after a save_app_data call with these inputs
Saved(app_data, fault, failAt, metaFailAt) ==
    save_app_data(rows, table_exists, security_metadata, app_data,
                  enable_encryption, enable_compression, enable_checksums,
                  fault, failAt, metaFailAt)

\* the statements of the block that may raise under an "execute" fault:
\* 0 is CREATE TABLE, i the i-th INSERT
FailPoints(app_data, fault) ==
    IF fault = "execute" /\ app_data.t = "dict"
    THEN 0 .. Len(ItemsOf(app_data)) ELSE {0}

\* a save or clear between backup and restore keeps the snapshot comparable
SnapshotKept == snapshot' = snapshot

SnapshotSpoiled == snapshot' = [snapshot EXCEPT !.clean = FALSE]

SaveAppData(inputs) ==
    \E app_data \in inputs, fault \in Faults :
    \E failAt \in FailPoints(app_data, fault), metaFailAt \in MetaFaults :
        LET r == Saved(app_data, fault, failAt, metaFailAt)
        IN  /\ WithinDepth(r.rows)
            /\ rows' = r.rows
            /\ table_exists' = r.table_exists
            /\ security_metadata' = r.security_metadata
            /\ last' = Call("save", r.ret, None, fault, app_data)
            /\ SnapshotKept
            /\ UNCHANGED <<flagVars, offStore, backup_file>>

LoadAppData ==
    \E fault \in LoadFaults :
        /\ last' = Call("load", TRUE,
                        Dict(LoadStore(rows, table_exists, security_metadata,
                                       enable_encryption, enable_compression,
                                       enable_checksums, fault)),
                        fault, None)
        /\ SnapshotKept
        /\ UNCHANGED <<flagVars, offStore, rows, table_exists,
                       security_metadata, backup_file>>

ClearAllData ==
    \E fault \in Faults :
    \E failAt \in FailPoints(empty_data, fault), metaFailAt \in MetaFaults :
        LET r == Saved(empty_data, fault, failAt, metaFailAt)
        IN  /\ rows' = r.rows
            /\ table_exists' = r.table_exists
            /\ security_metadata' = r.security_metadata
            /\ last' = Call("clear", r.ret, None, fault, None)
            /\ SnapshotKept
            /\ UNCHANGED <<flagVars, offStore, backup_file>>

\* update_security_settings (521-542)
UpdateSecuritySettings(checksumsArgs) ==
    \* an argument that is None leaves its flag: it is drawn as the flag's
    \* present value
    \E encryption \in BOOLEAN, compression \in BOOLEAN,
       checksums \in checksumsArgs,
       loadFault \in LoadFaults, fault \in Faults :
    \E failAt \in FailPoints(Dict(load_app_data(rows, table_exists,
                       enable_encryption, enable_compression, loadFault)),
                       fault) :
        LET current_data == load_app_data(rows, table_exists,
                                          enable_encryption,
                                          enable_compression, loadFault)
            e == encryption
            c == compression
            s == checksums
            resave == current_data # NoFields
            r == save_app_data(rows, table_exists, security_metadata,
                               Dict(current_data), e, c, s,
                               fault, failAt, 0)
        IN  /\ IF resave THEN WithinDepth(r.rows) ELSE fault = "none"
            /\ enable_encryption' = e
            /\ enable_compression' = c
            /\ enable_checksums' = s
            /\ rows' = IF resave THEN r.rows ELSE rows
            /\ table_exists' = IF resave THEN r.table_exists ELSE table_exists
            /\ security_metadata' =
                   IF resave THEN r.security_metadata ELSE security_metadata
            /\ last' = Call("update", IF resave THEN r.ret ELSE TRUE, None,
                            IF resave THEN fault ELSE loadFault,
                            [resaved |-> resave, loadFault |-> loadFault])
            /\ SnapshotSpoiled
            /\ UNCHANGED <<offStore, backup_file>>

\* backup_database (433-464); a failing open/write raises ValueError and
\* leaves the file as it was
BackupDatabase ==
    \E loadFault \in LoadFaults, written \in BOOLEAN :
        LET app_data == load_app_data(rows, table_exists, enable_encryption,
                                      enable_compression, loadFault)
        IN  /\ backup_file' = IF written
                              THEN BackupContent(Manifest(app_data))
                              ELSE backup_file
            /\ snapshot' =
                   IF written
                   THEN [taken |-> TRUE, clean |-> TRUE,
                         app_data |-> load_app_data(rows, table_exists,
                                         enable_encryption,
                                         enable_compression, "none")]
                   ELSE snapshot
            /\ last' = Call("backup", written, None, loadFault, None)
            /\ UNCHANGED <<flagVars, offStore, rows, table_exists,
                           security_metadata>>

\* restore_database (476-507)
RestoreDatabase ==
    \E file \in ForeignFiles \cup {NoFile, backup_file}, fault \in Faults :
    \E failAt \in IF ReadManifest(file).ok
                   THEN FailPoints(ReadManifest(file).r, fault) ELSE {0} :
        LET m == ReadManifest(file)
            r == Saved(m.r, fault, failAt, 0)
        IN  /\ IF m.ok THEN WithinDepth(r.rows) ELSE fault = "none"
            /\ rows' = IF m.ok THEN r.rows ELSE rows
            /\ table_exists' = IF m.ok THEN r.table_exists ELSE table_exists
            /\ security_metadata' =
                   IF m.ok THEN r.security_metadata ELSE security_metadata
            /\ last' = Call("restore", m.ok /\ r.ret, None, fault,
                            [file |-> file, saved |-> m.ok,
                             clean |-> snapshot.clean /\ file = backup_file])
            /\ SnapshotSpoiled
            /\ UNCHANGED <<flagVars, offStore, backup_file>>

Next ==
    \/ SaveAppData(SaveInputs)
    \/ LoadAppData
    \/ ClearAllData
    \/ UpdateSecuritySettings({enable_checksums})

\* The stored payload of one section is damaged outside the program
\* (a truncated or overwritten value): it is no Fernet token, no base64 of
\* a gzip stream and no JSON.
Corrupt == Raw("corrupt")

CorruptSection ==
    \E key \in Keys :
        /\ rows[key] # Absent
        /\ rows[key] # Corrupt
        /\ rows' = [rows EXCEPT ![key] = Corrupt]
        /\ last' = Call("corrupt", TRUE, None, "none", None)
        /\ SnapshotSpoiled
        /\ UNCHANGED <<flagVars, offStore, table_exists, security_metadata,
                       backup_file>>

\* The security_metadata row of a section is deleted, or replaced by a row
\* written at another time: other flags, the checksum of other data.
StaleMeta == {NoMeta, MetaRow(List(<<Obj>>), FALSE, FALSE)}

TamperMetadata ==
    \E key \in {"handovers", "benches"}, row \in StaleMeta :
        /\ security_metadata[key] # row
        /\ security_metadata' = [security_metadata EXCEPT ![key] = row]
        /\ last' = Call("tamper", TRUE, None, "none", None)
        /\ SnapshotSpoiled
        /\ UNCHANGED <<flagVars, offStore, rows, table_exists, backup_file>>

MetaNext ==
    \/ SaveAppData(SaveInputs \cup BenchInputs)
    \/ ClearAllData
    \/ LoadAppData
    \/ TamperMetadata

SpecMeta == Init /\ [][MetaNext]_vars

CorruptNext ==
    \/ SaveAppData(SaveInputs \cup BenchInputs)
    \/ ClearAllData
    \/ LoadAppData
    \/ CorruptSection

SpecCorrupt == Init /\ [][CorruptNext]_vars

\* SpecUpdateCorrupt: the settings are changed over a store in which a
\* payload may have been damaged.
UpdateCorruptNext ==
    \/ SaveAppData(BenchInputs)
    \/ CorruptSection
    \/ UpdateSecuritySettings({enable_checksums})

SpecUpdateCorrupt == Init /\ [][UpdateCorruptNext]_vars

BackupNext ==
    \/ SaveAppData(SaveInputs \cup BenchInputs)
    \/ ClearAllData
    \/ BackupDatabase
    \/ RestoreDatabase

SpecBackup == Init /\ [][BackupNext]_vars

\* SpecBackupFlags: backups and restores with changes of the runtime flags
\* in between.
\* deepest nesting of encodings followed in SpecBackupFlags
MaxFlagsDepth == 1

FlagsDepthKept ==
    {key \in Keys : rows'[key] # Absent
                       /\ TextDepth(rows'[key]) > MaxFlagsDepth} = {}

\* restore_database (476-507) handed the file backup_database wrote
RestoreOwnBackup ==
    /\ backup_file # NoFile
    /\ \E fault \in Faults :
          LET m == ReadManifest(backup_file)
              r == Saved(m.r, fault, 0, 0)
          IN  /\ rows' = IF m.ok THEN r.rows ELSE rows
              /\ table_exists' = IF m.ok THEN r.table_exists ELSE table_exists
              /\ security_metadata' =
                     IF m.ok THEN r.security_metadata ELSE security_metadata
              /\ last' = Call("restore", m.ok /\ r.ret, None, fault,
                              [file |-> backup_file, saved |-> m.ok,
                               clean |-> snapshot.clean])
    /\ SnapshotSpoiled
    /\ UNCHANGED <<flagVars, offStore, backup_file>>

BackupFlagsNext ==
    /\ \/ ClearAllData
       \/ UpdateSecuritySettings({enable_checksums})
       \/ BackupDatabase
       \/ RestoreOwnBackup
    /\ FlagsDepthKept

SpecBackupFlags == Init /\ [][BackupFlagsNext]_vars

Spec == Init /\ [][Next]_vars

-----------------------------------------------------------------------------
(* SpecCodec: one value is encoded, the flags may change, it is decoded.   *)

CodecInit ==
    /\ enable_encryption \in BOOLEAN
    /\ enable_compression \in BOOLEAN
    /\ enable_checksums = TRUE
    /\ StoreInit
    /\ plain \in CodecValues
    /\ written_under = <<enable_encryption, enable_compression>>
    /\ payload = Empty
    /\ decoded = None
    /\ stage = "new"
    /\ RetryIdle
    /\ ConcIdle
    /\ RecordIdle
    /\ AuthIdle
    /\ ExtIdle

CodecSecure ==
    /\ stage = "new"
    /\ LET r == _secure_data(plain, enable_encryption, enable_compression)
       IN  /\ r.ok
           /\ payload' = r.r
    /\ written_under' = <<enable_encryption, enable_compression>>
    /\ stage' = "stored"
    /\ UNCHANGED <<flagVars, plain, decoded, storeVars, retryVars, concVars, auxVars>>

\* the flag assignments of update_security_settings (526-529), without the
\* re-save
CodecSetFlags ==
    /\ stage = "stored"
    /\ \E e \in BOOLEAN, c \in BOOLEAN :
          /\ <<e, c>> # <<enable_encryption, enable_compression>>
          /\ enable_encryption' = e
          /\ enable_compression' = c
    /\ UNCHANGED <<enable_checksums, codecVars, storeVars, retryVars,
                   concVars, auxVars>>

CodecUnsecure ==
    /\ stage = "stored"
    /\ decoded' = _unsecure_data(payload, enable_encryption,
                                 enable_compression)
    /\ stage' = "decoded"
    /\ UNCHANGED <<flagVars, plain, written_under, payload, storeVars,
                   retryVars, concVars, auxVars>>

CodecNext == CodecSecure \/ CodecSetFlags \/ CodecUnsecure

SpecCodec == CodecInit /\ [][CodecNext]_vars

-----------------------------------------------------------------------------
(* SpecRetry: _get_connection_with_retry (218-253) statement by statement, *)
(* the generator behind the scoped connection together with the            *)
(* with-statement of contextlib that drives it.                            *)

\* retry_delay=0.1 (line 219), in milliseconds
RetryDelayMs == 100

RECURSIVE Pow2(_)
Pow2(n) == IF n = 0 THEN 1 ELSE 2 * Pow2(n - 1)

\* a wait that grows by one delay per attempt
BackoffLinear(k) == RetryDelayMs * (k + 1)

\* time.sleep(retry_delay * (2 ** attempt)) (237)
Backoff(k) == RetryDelayMs * Pow2(k)

\* what sqlite3 raises: OperationalError "database is locked", another
\* OperationalError, another Exception
Errors == {"locked", "operational", "error"}

\* a retry test that does not look at the kind of error
RetriedWhateverError(e, k, n) == k < n - 1

\* a retry test that gives up one attempt early
RetriedOneShort(e, k, n) == e = "locked" /\ k < n - 2

\* the test of line 231
Retried(e, k, n) == e = "locked" /\ k < n - 1

\* a handler that leaves the connection as it is
KeptOpen(c) == c

\* conn.close() under "if conn:" (233-236, 249-253)
Closed(c) == IF c = "None" THEN "None" ELSE "closed"

\* the except clauses and the finally of lines 230-253, entered with the
\* error e while the local conn is c
Handle(e, c) ==
    /\ conn' = Closed(c)
    /\ IF Retried(e, attempt, max_retries)
       THEN /\ pc' = "sleep"
            /\ result' = result
       ELSE /\ pc' = "done"
            /\ result' = e

RetryInit ==
    /\ enable_encryption = TRUE
    /\ enable_compression = TRUE
    /\ enable_checksums = TRUE
    /\ StoreInit
    /\ CodecIdle
    /\ ConcIdle
    /\ RecordIdle
    /\ AuthIdle
    /\ ExtIdle
    /\ max_retries \in 1 .. DefaultMaxRetries
    /\ attempt = 0
    /\ conn = "None"
    /\ pc = "connect"
    /\ attempts_made = 0
    /\ sleeps = << >>
    /\ block_runs = 0
    /\ exited = FALSE
    /\ tx = "none"
    /\ result = "none"
    /\ all_locked = TRUE
    /\ raised = "none"

\* lines 224-227: sqlite3.connect and the two PRAGMAs; "created" tells
\* whether connect had returned when the error was raised
Acquire ==
    /\ pc = "connect"
    /\ attempts_made' = attempts_made + 1
    /\ \E outcome \in {"ok"} \cup Errors :
       \E created \in IF outcome = "ok" THEN {TRUE} ELSE BOOLEAN :
          /\ all_locked' = (all_locked /\ outcome = "locked")
          /\ raised' = IF outcome = "ok" THEN raised ELSE outcome
          /\ IF outcome = "ok"
             THEN /\ conn' = "open"
                  \* a second yield, after the block was left, makes
                  \* contextlib raise RuntimeError with the generator
                  \* suspended at line 227
                  /\ pc' = IF exited THEN "suspended" ELSE "block"
                  /\ result' = IF exited THEN "RuntimeError" ELSE result
                  /\ block_runs' = IF exited THEN block_runs
                                   ELSE block_runs + 1
             ELSE /\ Handle(outcome, IF created THEN "open" ELSE conn)
                  /\ block_runs' = block_runs
    /\ UNCHANGED <<flagVars, codecVars, storeVars, concVars, auxVars, max_retries, attempt,
                   sleeps, exited, tx>>

\* line 237, then the finally and the next iteration of line 222; a loop
\* that runs out ends the generator without a yield
Sleep ==
    /\ pc = "sleep"
    /\ sleeps' = Append(sleeps, Backoff(attempt))
    /\ attempt' = attempt + 1
    /\ IF attempt + 1 < max_retries
       THEN /\ pc' = "connect"
            /\ result' = result
       ELSE /\ pc' = "done"
            /\ result' = IF exited THEN "returned" ELSE "RuntimeError"
    /\ UNCHANGED <<flagVars, codecVars, storeVars, concVars, auxVars, max_retries, conn,
                   attempts_made, block_runs, exited, tx, all_locked, raised>>

\* the caller's block; an exception it raises is thrown into the generator
\* at line 227
Block ==
    /\ pc = "block"
    /\ \E outcome \in {"ok"} \cup Errors :
          IF outcome = "ok"
          THEN /\ pc' = "commit"
               /\ tx' = "pending"
               /\ UNCHANGED <<conn, result, exited, raised>>
          ELSE /\ exited' = TRUE
               /\ tx' = "rolled back"
               /\ raised' = outcome
               /\ Handle(outcome, conn)
    /\ UNCHANGED <<flagVars, codecVars, storeVars, concVars, auxVars, max_retries, attempt,
                   attempts_made, sleeps, block_runs, all_locked>>

\* lines 228-229 and the finally
Commit ==
    /\ pc = "commit"
    /\ exited' = TRUE
    /\ \E outcome \in {"ok"} \cup Errors :
          IF outcome = "ok"
          THEN /\ tx' = "committed"
               /\ conn' = "closed"
               /\ pc' = "done"
               /\ result' = "returned"
               /\ raised' = raised
          ELSE /\ tx' = "rolled back"
               /\ raised' = outcome
               /\ Handle(outcome, conn)
    /\ UNCHANGED <<flagVars, codecVars, storeVars, concVars, auxVars, max_retries, attempt,
                   attempts_made, sleeps, block_runs, all_locked>>

\* the suspended generator is closed when it is collected: GeneratorExit
\* at line 227 runs the finally
Finalize ==
    /\ pc = "suspended"
    /\ conn' = "closed"
    /\ pc' = "done"
    /\ UNCHANGED <<flagVars, codecVars, storeVars, concVars, auxVars, max_retries, attempt,
                   attempts_made, sleeps, block_runs, exited, tx, result,
                   all_locked, raised>>

RetryNext == Acquire \/ Sleep \/ Block \/ Commit \/ Finalize

SpecRetry == RetryInit /\ [][RetryNext]_vars

-----------------------------------------------------------------------------
(* SpecConc: one thread in save_app_data and one in                        *)
(* update_security_settings on the same SecureDatabaseManager, statement   *)
(* by statement.  The manager has no lock of its own (no threading.Lock in *)
(* secure_database.py); SQLite lets one transaction write at a time.       *)

\* the dict the saving thread passes
ConcSaveInput ==
    Dict([theme_mode |-> Str(Raw("dark")), handovers |-> List(<<Handover1>>)])

\* the database holds what clear_all_data wrote under the default flags
ConcInit ==
    /\ enable_encryption = TRUE
    /\ enable_compression = TRUE
    /\ enable_checksums = TRUE
    /\ LET r == save_app_data(NoRows, FALSE, [key \in Keys |-> NoMeta],
                              empty_data, TRUE, TRUE, TRUE, "none", 0, 0)
       IN  /\ rows = r.rows
           /\ table_exists = r.table_exists
           /\ security_metadata = r.security_metadata
    /\ backup_file = NoFile
    /\ snapshot = [taken |-> FALSE, app_data |-> NoFields, clean |-> FALSE]
    /\ last = NoCall
    /\ CodecIdle
    /\ RetryIdle
    /\ RecordIdle
    /\ AuthIdle
    /\ ExtIdle
    /\ thread_pc = [t \in Threads |-> IF t = "save" THEN "create" ELSE "load"]
    /\ thread_data =
          [t \in Threads |-> IF t = "save" THEN ConcSaveInput.f ELSE NoFields]
    /\ thread_i = [t \in Threads |-> 1]
    /\ thread_text = [t \in Threads |-> Empty]
    /\ thread_written = [t \in Threads |-> NoRows]
    /\ thread_ret = [t \in Threads |-> "none"]
    /\ writer = "none"
    /\ update_args \in BOOLEAN \X BOOLEAN

ThreadItems(t) == ItemsOf(Dict(thread_data[t]))

\* what the conc actions never touch
offConc == <<codecVars, retryVars, auxVars, table_exists, backup_file, snapshot, last,
             enable_checksums, update_args>>

\* update_security_settings line 523
UpdateLoad ==
    /\ thread_pc["update"] = "load"
    /\ \E fault \in LoadFaults :
          thread_data' =
             [thread_data EXCEPT !["update"] =
                 load_app_data(rows, table_exists, enable_encryption,
                               enable_compression, fault)]
    /\ thread_pc' = [thread_pc EXCEPT !["update"] = "set_encryption"]
    /\ UNCHANGED <<offConc, enable_encryption, enable_compression, rows,
                   security_metadata, thread_i, thread_text, thread_written,
                   thread_ret, writer>>

\* lines 526-527
UpdateSetEncryption ==
    /\ thread_pc["update"] = "set_encryption"
    /\ enable_encryption' = update_args[1]
    /\ thread_pc' = [thread_pc EXCEPT !["update"] = "set_compression"]
    /\ UNCHANGED <<offConc, enable_compression, rows, security_metadata,
                   thread_data, thread_i, thread_text, thread_written,
                   thread_ret, writer>>

\* lines 528-529 and the test of line 534
UpdateSetCompression ==
    /\ thread_pc["update"] = "set_compression"
    /\ enable_compression' = update_args[2]
    /\ IF thread_data["update"] # NoFields
       THEN /\ thread_pc' = [thread_pc EXCEPT !["update"] = "create"]
            /\ thread_ret' = thread_ret
       ELSE /\ thread_pc' = [thread_pc EXCEPT !["update"] = "done"]
            /\ thread_ret' = [thread_ret EXCEPT !["update"] = "True"]
    /\ UNCHANGED <<offConc, enable_encryption, rows, security_metadata,
                   thread_data, thread_i, thread_text, thread_written,
                   writer>>

\* save_app_data lines 266-282: the scope opens, CREATE TABLE IF NOT EXISTS
ThreadCreate(t) ==
    /\ thread_pc[t] = "create"
    /\ thread_pc' = [thread_pc EXCEPT ![t] =
                        IF ThreadItems(t) = << >> THEN "commit"
                        ELSE "compress"]
    /\ UNCHANGED <<offConc, enable_encryption, enable_compression, rows,
                   security_metadata, thread_data, thread_i, thread_text,
                   thread_written, thread_ret, writer>>

\* _secure_data lines 128-142: json.dumps or str, then the compression
\* this thread finds enabled
ThreadCompress(t) ==
    /\ thread_pc[t] = "compress"
    /\ LET key == ThreadItems(t)[thread_i[t]]
           value == SectionInput(key, thread_data[t][key])
           json_data == IF value.t \in {"dict", "list"} THEN Json(value)
                        ELSE PyStr(value)
       IN  IF value.t \in {"dict", "list"} /\ ~Serializable(value)
           THEN /\ thread_pc' = [thread_pc EXCEPT ![t] = "done"]
                /\ thread_ret' = [thread_ret EXCEPT ![t] = "False"]
                /\ writer' = IF writer = t THEN "none" ELSE writer
                /\ thread_text' = thread_text
           ELSE /\ thread_pc' = [thread_pc EXCEPT ![t] = "encrypt"]
                /\ thread_text' =
                      [thread_text EXCEPT ![t] =
                          IF enable_compression
                          THEN compress_string(json_data) ELSE json_data]
                /\ UNCHANGED <<thread_ret, writer>>
    /\ UNCHANGED <<offConc, enable_encryption, enable_compression, rows,
                   security_metadata, thread_data, thread_i, thread_written>>

\* _secure_data lines 149-153: the encryption this thread finds enabled
ThreadEncrypt(t) ==
    /\ thread_pc[t] = "encrypt"
    /\ thread_text' = [thread_text EXCEPT ![t] =
                          IF enable_encryption
                          THEN encrypt_string(thread_text[t])
                          ELSE thread_text[t]]
    /\ thread_pc' = [thread_pc EXCEPT ![t] = "insert"]
    /\ UNCHANGED <<offConc, enable_encryption, enable_compression, rows,
                   security_metadata, thread_data, thread_i, thread_written,
                   thread_ret, writer>>

\* lines 289-292: INSERT OR REPLACE; the first one takes the write lock
ThreadInsert(t) ==
    /\ thread_pc[t] = "insert"
    /\ writer \in {"none", t}
    /\ writer' = t
    /\ thread_written' =
          [thread_written EXCEPT
              ![t][ThreadItems(t)[thread_i[t]]] = thread_text[t]]
    /\ thread_i' = [thread_i EXCEPT ![t] = thread_i[t] + 1]
    /\ thread_pc' = [thread_pc EXCEPT ![t] =
                        IF thread_i[t] + 1 > Len(ThreadItems(t))
                        THEN "commit" ELSE "compress"]
    /\ UNCHANGED <<offConc, enable_encryption, enable_compression, rows,
                   security_metadata, thread_data, thread_text, thread_ret>>

\* the other thread still holds the write lock when busy_timeout ends: the
\* INSERT raises "database is locked" and save_app_data returns False
ThreadBusy(t) ==
    /\ thread_pc[t] = "insert"
    /\ writer \notin {"none", t}
    /\ thread_pc' = [thread_pc EXCEPT ![t] = "done"]
    /\ thread_ret' = [thread_ret EXCEPT ![t] = "False"]
    /\ UNCHANGED <<offConc, enable_encryption, enable_compression, rows,
                   security_metadata, thread_data, thread_i, thread_text,
                   thread_written, writer>>

\* line 228: conn.commit() at the end of the scope
ThreadCommit(t) ==
    /\ thread_pc[t] = "commit"
    /\ rows' = [key \in Keys |->
                   IF thread_written[t][key] # Absent
                   THEN thread_written[t][key] ELSE rows[key]]
    /\ writer' = IF writer = t THEN "none" ELSE writer
    /\ thread_pc' = [thread_pc EXCEPT ![t] = "metadata"]
    /\ UNCHANGED <<offConc, enable_encryption, enable_compression,
                   security_metadata, thread_data, thread_i, thread_text,
                   thread_written, thread_ret>>

\* lines 295-303: the metadata rows, written over a connection of their
\* own; a lock error there is printed and the call still returns True
ThreadMetadata(t) ==
    /\ thread_pc[t] = "metadata"
    /\ security_metadata' =
          IF writer = "none"
          THEN UpdateMetadata(security_metadata, Dict(thread_data[t]),
                              ThreadItems(t), 1, enable_encryption,
                              enable_compression, enable_checksums, 0)
          ELSE security_metadata
    /\ thread_pc' = [thread_pc EXCEPT ![t] = "done"]
    /\ thread_ret' = [thread_ret EXCEPT ![t] = "True"]
    /\ UNCHANGED <<offConc, enable_encryption, enable_compression, rows,
                   thread_data, thread_i, thread_text, thread_written,
                   writer>>

ConcNext ==
    \/ UpdateLoad
    \/ UpdateSetEncryption
    \/ UpdateSetCompression
    \/ \E t \in Threads :
          \/ ThreadCreate(t)
          \/ ThreadCompress(t)
          \/ ThreadEncrypt(t)
          \/ ThreadInsert(t)
          \/ ThreadBusy(t)
          \/ ThreadCommit(t)
          \/ ThreadMetadata(t)

SpecConc == ConcInit /\ [][ConcNext]_vars

-----------------------------------------------------------------------------
(* SpecRecord: one record of SecureStorageManager (secure_storage.py): its *)
(* payload is stored with its checksum, a byte of the stored payload may be*)
(* changed, the record is read back.  SHA-256 is taken as collision-free:  *)
(* a digest is modelled by the bytes it was computed from.                 *)

\* the values of a byte
MaxByte == 2

\* the longest payload
MaxLen == 3

Payloads == UNION {[1 .. n -> 0 .. MaxByte] : n \in 0 .. MaxLen}

\* str.encode('utf-8') of the texts of the model is the byte sequence itself
Utf8(data) == data.b

\* a digest that depends on the length of the data only
LengthHash(data) == [k |-> "sha256", of |-> [i \in 1 .. Len(data.b) |-> 0]]

\* DataIntegrityManager.calculate_hash (encryption.py 199-204)
calculate_hash(data) ==
    [k |-> "sha256",
     of |-> IF data.kind = "str" THEN Utf8(data) ELSE data.b]

\* DataIntegrityManager.verify_hash (206-210)
verify_hash(data, expected_hash) == calculate_hash(data) = expected_hash

Bytes(b) == [kind |-> "bytes", b |-> b]

RecordInit ==
    /\ enable_encryption = TRUE
    /\ enable_compression = TRUE
    /\ enable_checksums = TRUE
    /\ StoreInit
    /\ CodecIdle
    /\ RetryIdle
    /\ ConcIdle
    /\ AuthIdle
    /\ ExtIdle
    /\ encrypted_data \in Payloads
    /\ checksum = [k |-> "none"]
    /\ modified = 0
    /\ record_stage = "new"
    /\ record_result = "none"

\* _encrypt_and_compress_data line 166: the checksum stored with the payload
RecordStore ==
    /\ record_stage = "new"
    /\ checksum' = calculate_hash(Bytes(encrypted_data))
    /\ record_stage' = "stored"
    /\ UNCHANGED <<flagVars, codecVars, storeVars, retryVars, concVars,
                   authVars, extVars, encrypted_data, modified, record_result>>

\* one byte of the stored payload is changed outside the program
RecordFlip ==
    /\ record_stage = "stored"
    /\ modified = 0
    /\ \E i \in 1 .. Len(encrypted_data), b \in 0 .. MaxByte :
          /\ b # encrypted_data[i]
          /\ encrypted_data' = [encrypted_data EXCEPT ![i] = b]
    /\ modified' = 1
    /\ UNCHANGED <<flagVars, codecVars, storeVars, retryVars, concVars,
                   authVars, extVars, checksum, record_stage, record_result>>

\* _decrypt_and_decompress_data lines 183-185: ValueError when the hash
\* does not verify, else the record goes on to be decoded
RecordRead ==
    /\ record_stage = "stored"
    /\ record_result' = IF verify_hash(Bytes(encrypted_data), checksum)
                        THEN "decoded" ELSE "refused"
    /\ record_stage' = "read"
    /\ UNCHANGED <<flagVars, codecVars, storeVars, retryVars, concVars,
                   authVars, extVars, encrypted_data, checksum, modified>>

RecordNext == RecordStore \/ RecordFlip \/ RecordRead

SpecRecord == RecordInit /\ [][RecordNext]_vars

-----------------------------------------------------------------------------
(* SpecAuth: the administration handlers of main.py (backup_data,          *)
(* restore_database_from_backup, clear_database) in front of               *)
(* SecureDatabaseManager, with users of every role logging in and out.     *)

Roles == {"admin", "manager", "user", "viewer"}

Permissions == {"all", "read", "write", "export", "backup"}

\* role_permissions of User.has_permission (user.py 136-141)
role_permissions(role) ==
    CASE role = "admin"   -> {"all"}
      [] role = "manager" -> {"read", "write", "export", "backup"}
      [] role = "user"    -> {"read", "write"}
      [] role = "viewer"  -> {"read"}
      [] OTHER            -> {}

\* a permission test that every known role passes
AnyRolePermitted(role, permission) == role \in Roles

\* User.has_permission (user.py 134-144)
has_permission(role, permission) ==
    "all" \in role_permissions(role) \/ permission \in role_permissions(role)

\* "not current_user or not current_user.has_permission('all')" negated
\* (main.py 675, 701, 818)
AdminLoggedIn == current_user # "None" /\ has_permission(current_user, "all")

\* the app_data dict of the running application
UiAppData == ConcSaveInput

\* the empty_data of confirm_clear (main.py 848-858), on the model's sections
UiEmptyData ==
    Dict([theme_mode |-> Str(Raw("dark")), handovers |-> EmptyList,
          benches |-> EmptyList])

\* where a call made by a handler fails
UiFaults == {"none", "acquire"}

StoreNow ==
    [ret |-> TRUE, rows |-> rows, table_exists |-> table_exists,
     security_metadata |-> security_metadata]

\* save_app_data called on the store st
SaveOn(st, app_data, fault) ==
    save_app_data(st.rows, st.table_exists, st.security_metadata, app_data,
                  enable_encryption, enable_compression, enable_checksums,
                  fault, 0, 0)

\* what a handler leaves behind: who called it and how many calls of
\* SecureDatabaseManager it made
Handled(op, ret, calls) ==
    Call(op, ret, None, "none", [user |-> current_user, calls |-> calls])

\* the "Access denied" branch: a snackbar and return
Denied(op) ==
    /\ last' = Handled(op, FALSE, 0)
    /\ UNCHANGED <<flagVars, codecVars, retryVars, concVars, auxVars, rows,
                   table_exists, security_metadata, backup_file, snapshot>>

\* main.py 73-76
Login ==
    /\ current_user = "None"
    /\ \E role \in Roles : current_user' = role
    /\ UNCHANGED <<flagVars, codecVars, storeVars, retryVars, concVars,
                   recordVars, extVars, dialog>>

\* logout_user (main.py 474-495); a modal dialog keeps the menu out of reach
Logout ==
    /\ current_user # "None"
    /\ dialog = "none"
    /\ current_user' = "None"
    /\ UNCHANGED <<flagVars, codecVars, storeVars, retryVars, concVars,
                   recordVars, extVars, dialog>>

\* the application saves its app_data for a logged-in user
UiSave ==
    /\ current_user # "None"
    /\ dialog = "none"
    /\ SaveAppData({UiAppData})

\* backup_data (main.py 672-696): save_app_data, backup_database,
\* get_storage_stats
BackupData ==
    /\ dialog = "none"
    /\ IF ~AdminLoggedIn THEN Denied("backup_data")
       ELSE \E fault \in UiFaults, loadFault \in LoadFaults,
               written \in BOOLEAN :
               LET st == SaveOn(StoreNow, UiAppData, fault)
                   app_data == load_app_data(st.rows, st.table_exists,
                                             enable_encryption,
                                             enable_compression, loadFault)
               IN  /\ rows' = st.rows
                   /\ table_exists' = st.table_exists
                   /\ security_metadata' = st.security_metadata
                   /\ backup_file' = IF written
                                     THEN BackupContent(Manifest(app_data))
                                     ELSE backup_file
                   /\ snapshot' =
                         IF written
                         THEN [taken |-> TRUE, clean |-> TRUE,
                               app_data |->
                                  load_app_data(st.rows, st.table_exists,
                                                enable_encryption,
                                                enable_compression, "none")]
                         ELSE snapshot
                   /\ last' = Handled("backup_data", written,
                                      IF written THEN 3 ELSE 2)
                   /\ UNCHANGED <<flagVars, codecVars, retryVars, concVars,
                                  auxVars>>

\* restore_database_from_backup (main.py 698-703 and the dialog it opens)
RestoreDatabaseFromBackup ==
    /\ dialog = "none"
    /\ IF ~AdminLoggedIn THEN Denied("restore_database_from_backup")
       ELSE /\ dialog' = "restore"
            /\ last' = Handled("restore_database_from_backup", TRUE, 0)
            /\ UNCHANGED <<flagVars, codecVars, retryVars, concVars,
                           recordVars, extVars, current_user, rows, table_exists,
                           security_metadata, backup_file, snapshot>>

\* perform_restore (main.py 710-765): restore_database, then load_app_data
PerformRestore ==
    /\ dialog = "restore"
    /\ dialog' = "none"
    /\ \E file \in {NoFile, backup_file}, fault \in UiFaults :
          LET m == ReadManifest(file)
              st == IF m.ok THEN SaveOn(StoreNow, m.r, fault)
                    ELSE [StoreNow EXCEPT !.ret = FALSE]
          IN  /\ rows' = st.rows
              /\ table_exists' = st.table_exists
              /\ security_metadata' = st.security_metadata
              /\ last' = Handled("perform_restore", st.ret,
                                 IF st.ret THEN 2 ELSE 1)
    /\ SnapshotSpoiled
    /\ UNCHANGED <<flagVars, codecVars, retryVars, concVars, recordVars, extVars,
                   current_user, backup_file>>

\* clear_database (main.py 815-820 and the dialog it opens)
ClearDatabase ==
    /\ dialog = "none"
    /\ IF ~AdminLoggedIn THEN Denied("clear_database")
       ELSE /\ dialog' = "clear"
            /\ last' = Handled("clear_database", TRUE, 0)
            /\ UNCHANGED <<flagVars, codecVars, retryVars, concVars,
                           recordVars, extVars, current_user, rows, table_exists,
                           security_metadata, backup_file, snapshot>>

\* confirm_clear (main.py 826-885): clear_all_data and, when it succeeded,
\* save_app_data, clear_all_data, save_app_data
ConfirmClear ==
    /\ dialog = "clear"
    /\ dialog' = "none"
    /\ \E f1 \in UiFaults, f2 \in UiFaults, f3 \in UiFaults, f4 \in UiFaults :
          LET s1 == SaveOn(StoreNow, empty_data, f1)
              s2 == SaveOn(s1, UiEmptyData, f2)
              s3 == SaveOn(s2, empty_data, f3)
              s4 == SaveOn(s3, UiEmptyData, f4)
              st == IF s1.ret THEN s4 ELSE s1
          IN  /\ rows' = st.rows
              /\ table_exists' = st.table_exists
              /\ security_metadata' = st.security_metadata
              /\ last' = Handled("confirm_clear", s1.ret,
                                 IF s1.ret THEN 4 ELSE 1)
    /\ SnapshotKept
    /\ UNCHANGED <<flagVars, codecVars, retryVars, concVars, recordVars, extVars,
                   current_user, backup_file>>

\* the Cancel button of either dialog
CancelDialog ==
    /\ dialog # "none"
    /\ dialog' = "none"
    /\ UNCHANGED <<flagVars, codecVars, storeVars, retryVars, concVars,
                   recordVars, extVars, current_user>>

AuthNext ==
    \/ Login
    \/ Logout
    \/ UiSave
    \/ BackupData
    \/ RestoreDatabaseFromBackup
    \/ PerformRestore
    \/ ClearDatabase
    \/ ConfirmClear
    \/ CancelDialog

SpecAuth == Init /\ [][AuthNext]_vars

-----------------------------------------------------------------------------
(* SpecPassword: SecureStorageManager (secure_storage.py) with its table   *)
(* handovers: records are added, the password is changed, the records are  *)
(* listed.  enable_encryption and enable_compression are here the fields   *)
(* of SecureStorageManager, fixed at construction.  PBKDF2 and Fernet are  *)
(* idealised: different passwords give different keys, and a token opens   *)
(* under the key that made it and under no other.                          *)

Passwords == {"pw1", "pw2", "pw3"}

\* the ids add_handover is called with
HandoverIds == {"1", "2", "3"}

\* the dicts add_handover is called with
HandoverDicts == {[status |-> "Completed"], [status |-> "Open"]}

\* sample_handover of _insert_sample_data (208-215), on the model's fields
sample_handover == [status |-> "Completed"]

\* EncryptionManager._derive_key (encryption.py 42-54)
_derive_key(pw) == [kdf |-> "pbkdf2", of |-> pw]

\* Fernet(key).encrypt
FernetEncrypt(key, data) == [k |-> "fernet", key |-> key, of |-> data]

\* a cipher that opens a token whatever key made it
FernetDecryptAnyKey(key, token) ==
    IF token.k = "fernet" THEN Ok(token.of) ELSE Raised

\* Fernet(key).decrypt: InvalidToken for another key's token and for bytes
\* that are no token
FernetDecrypt(key, token) ==
    IF token.k = "fernet" /\ token.key = key THEN Ok(token.of) ELSE Raised

\* the digest of a payload, standing for the payload it was computed from
PayloadHash(data) == [k |-> "sha256", key |-> "none", of |-> data]

\* SecureStorageManager._encrypt_and_compress_data (138-168)
_encrypt_and_compress_data(data, encryption, compression, pw) ==
    LET compressed_data ==
            [k |-> IF compression THEN "gzip" ELSE "utf8", key |-> "none",
             of |-> data]
        processed ==
            IF encryption THEN FernetEncrypt(_derive_key(pw), compressed_data)
            ELSE compressed_data
    IN  [encrypted_data |-> processed,
         compression_type |-> IF compression THEN "gzip" ELSE "none",
         encryption_checksum |-> PayloadHash(processed)]

\* SecureStorageManager._decrypt_and_decompress_data (170-201)
_decrypt_and_decompress_data(row, encryption, compression, pw) ==
    IF PayloadHash(row.encrypted_data) # row.encryption_checksum THEN Raised
    ELSE LET decrypted_data ==
                 IF encryption
                 THEN FernetDecrypt(_derive_key(pw), row.encrypted_data)
                 ELSE Ok(row.encrypted_data)
         IN  IF ~decrypted_data.ok THEN Raised
             ELSE LET d == decrypted_data.r
                      decompressed_data ==
                          IF row.compression_type # "none" /\ compression
                          THEN IF d.k = "gzip"
                               THEN Ok([k |-> "utf8", key |-> "none",
                                        of |-> d.of])
                               ELSE Raised
                          ELSE Ok(d)
                  IN  IF ~decompressed_data.ok THEN Raised
                      ELSE IF decompressed_data.r.k = "utf8"
                      THEN Ok(decompressed_data.r.of)
                      ELSE Raised

\* the ids whose row get_handovers decodes
Decodable(table, encryption, compression, pw) ==
    {id \in DOMAIN table :
        _decrypt_and_decompress_data(table[id], encryption, compression,
                                     pw).ok}

\* SecureStorageManager.get_handovers (254-276) without a status filter: a
\* row that raises is reported and skipped
get_handovers(table, encryption, compression, pw) ==
    [id \in Decodable(table, encryption, compression, pw) |->
        [status |-> _decrypt_and_decompress_data(table[id], encryption,
                                                 compression, pw).r.status,
         id |-> id]]

\* changes of the password followed in one behaviour
MaxChanges == 2

\* the constructor (19-50): the tables are created and the sample record is
\* inserted under the constructor's password
PasswordInit ==
    /\ enable_encryption \in BOOLEAN
    /\ enable_compression \in BOOLEAN
    /\ enable_checksums = TRUE
    /\ StoreInit
    /\ CodecIdle
    /\ RetryIdle
    /\ ConcIdle
    /\ RecordIdle
    /\ AuthIdle
    /\ password = "pw1"
    /\ handovers_table =
          [id \in {"1"} |->
              _encrypt_and_compress_data(sample_handover, enable_encryption,
                                         enable_compression, "pw1")]
    /\ listed = << >>
    /\ last_password_change = 0
    /\ storage_op = "init"
    /\ FilesIdle
    /\ LoginIdle

offStorage ==
    <<flagVars, codecVars, storeVars, retryVars, concVars, recordVars,
      authVars, fileVars, loginVars>>

\* add_handover (232-252): INSERT of a new primary key
AddHandover ==
    /\ \E id \in HandoverIds \ DOMAIN handovers_table,
          handover_data \in HandoverDicts :
          handovers_table' =
             [i \in DOMAIN handovers_table \cup {id} |->
                 IF i = id
                 THEN _encrypt_and_compress_data(handover_data,
                          enable_encryption, enable_compression, password)
                 ELSE handovers_table[i]]
    /\ storage_op' = "add_handover"
    /\ UNCHANGED <<offStorage, password, listed, last_password_change>>

\* SecureStorageManager.change_password (378-394) with
\* EncryptionManager.change_password (181-185)
ChangePassword ==
    /\ last_password_change < MaxChanges
    /\ \E new_password \in Passwords :
          IF enable_encryption
          THEN /\ password' = new_password
               /\ last_password_change' = last_password_change + 1
          ELSE UNCHANGED <<password, last_password_change>>
    /\ storage_op' = "change_password"
    /\ UNCHANGED <<offStorage, handovers_table, listed>>

GetHandovers ==
    /\ listed' = get_handovers(handovers_table, enable_encryption,
                               enable_compression, password)
    /\ storage_op' = "get_handovers"
    /\ UNCHANGED <<offStorage, password, handovers_table,
                   last_password_change>>

PasswordNext == AddHandover \/ ChangePassword \/ GetHandovers

SpecPassword == PasswordInit /\ [][PasswordNext]_vars

-----------------------------------------------------------------------------
(* BackupManager (utils/backup.py): backups of the database file. A path   *)
(* is its directory, the stem of its name and the list of its extensions;  *)
(* a file is the bytes it holds, written as the encoding that made them.   *)

\* the databases at source_db_path: non-empty SQLite files
DbContents ==
    {[k |-> "sqlite", key |-> "none", of |-> "db1"],
     [k |-> "sqlite", key |-> "none", of |-> "db2"]}

\* the encryption_password the constructor is given (20-22)
ManagerPasswords == {"none", "pw1"}

\* the password restore_backup is called with (102), "none" for None
RestorePasswords == {"none", "pw1", "pw2"}

\* create_backup calls followed in one behaviour
MaxBackups == 2

\* pathlib's Path.suffix: the last extension of the name, or ''
suffix(path) ==
    IF path.ext = << >> THEN "" ELSE path.ext[Len(path.ext)]

\* pathlib's Path.with_suffix: the last extension replaced, or one added
with_suffix(path, ext) ==
    IF path.ext = << >> THEN [path EXCEPT !.ext = <<ext>>]
    ELSE [path EXCEPT !.ext[Len(path.ext)] = ext]

\* f"{file_path}{extension}"
WithExtension(path, ext) == [path EXCEPT !.ext = Append(path.ext, ext)]

\* file_path[:-len(ext)] for a path that ends with ext
WithoutExtension(path) ==
    [path EXCEPT !.ext = SubSeq(path.ext, 1, Len(path.ext) - 1)]

\* open(path, 'wb').write(data), shutil.copy2
Written(dir, path, data) ==
    [p \in DOMAIN dir \cup {path} |-> IF p = path THEN data ELSE dir[p]]

\* os.remove
Removed(dir, path) == [p \in DOMAIN dir \ {path} |-> dir[p]]

\* CompressionManager.compress_bytes (compression.py 50-82) of non-empty
\* bytes under GZIP
compress_bytes(data) == [k |-> "gzip", key |-> "none", of |-> data]

\* CompressionManager.decompress_bytes: raises on bytes that are no gzip
decompress_bytes(data) == IF data.k = "gzip" THEN Ok(data.of) ELSE Raised

\* CompressionManager._remove_compression_extension (225-231)
_remove_compression_extension(path) ==
    IF suffix(path) \in {"gz", "bz2", "xz", "zlib"}
    THEN WithoutExtension(path) ELSE path

\* CompressionManager.compress_file (163-188) with the default output_path
compress_file(dir, path) ==
    [dir |-> Written(dir, WithExtension(path, "gz"), compress_bytes(dir[path])),
     path |-> WithExtension(path, "gz")]

\* CompressionManager.decompress_file (190-212) with the default output_path
decompress_file(dir, path) ==
    LET decompressed_data == decompress_bytes(dir[path])
    IN  IF ~decompressed_data.ok THEN [ok |-> FALSE, dir |-> dir]
        ELSE [ok |-> TRUE,
              dir |-> Written(dir, _remove_compression_extension(path),
                              decompressed_data.r),
              path |-> _remove_compression_extension(path)]

\* EncryptionManager.encrypt_file (encryption.py 129-148)
encrypt_file(dir, path, pw) ==
    [dir |-> Written(dir, WithExtension(path, "enc"),
                     FernetEncrypt(_derive_key(pw), dir[path])),
     path |-> WithExtension(path, "enc")]

\* EncryptionManager.decrypt_file (150-175): the output path drops a final
\* .enc and gets .dec otherwise; cipher.decrypt raises before anything is
\* written
decrypt_file(dir, path, pw) ==
    LET output_path ==
            IF suffix(path) = "enc" THEN WithoutExtension(path)
            ELSE WithExtension(path, "dec")
        decrypted_data == FernetDecrypt(_derive_key(pw), dir[path])
    IN  IF ~decrypted_data.ok THEN [ok |-> FALSE, dir |-> dir]
        ELSE [ok |-> TRUE,
              dir |-> Written(dir, output_path, decrypted_data.r),
              path |-> output_path]

\* the metadata of lines 67-75, on the fields that describe the backup
BackupMetadata(compress, encrypt) ==
    [k |-> "json", key |-> "none",
     of |-> [compressed |-> compress, encrypted |-> encrypt]]

\* BackupManager.create_backup (43-98) with include_metadata = True: the
\* files of the directory afterwards and the path returned
create_backup(dir, source, manager_pw, now, compress, encrypt) ==
    LET encrypting == encrypt /\ manager_pw # "none"
        db_path ==
            [dir |-> IF encrypting THEN "encrypted" ELSE "unencrypted",
             stem |-> now, ext |-> <<"db">>]
        copied ==
            Written(Written(dir, db_path, source),
                    with_suffix(db_path, "json"),
                    BackupMetadata(compress, encrypt))
        compressed ==
            IF compress
            THEN [dir |-> Removed(compress_file(copied, db_path).dir, db_path),
                  path |-> compress_file(copied, db_path).path]
            ELSE [dir |-> copied, path |-> db_path]
        encrypted ==
            IF encrypting
            THEN [dir |-> Removed(encrypt_file(compressed.dir, compressed.path,
                                               manager_pw).dir,
                                  compressed.path),
                  path |-> encrypt_file(compressed.dir, compressed.path,
                                        manager_pw).path]
            ELSE compressed
    IN  encrypted

\* BackupManager.restore_backup (100-149): what it returns, the files of the
\* directory afterwards and what it wrote to target_db_path, if anything
restore_backup(dir, path, manager_pw, pw, target) ==
    LET temp_path == with_suffix(path, "temp")
        copied == Written(dir, temp_path, dir[path])
        decrypting ==
            suffix(path) = "enc" \/ (pw # "none" /\ manager_pw # "none")
        key_pw == IF pw # "none" THEN pw ELSE manager_pw
        decrypted ==
            IF decrypting /\ key_pw # "none"
            THEN LET d == decrypt_file(copied, temp_path, key_pw)
                 IN  IF d.ok
                     THEN [ok |-> TRUE, dir |-> Removed(d.dir, temp_path),
                           path |-> d.path]
                     ELSE d
            ELSE [ok |-> TRUE, dir |-> copied, path |-> temp_path]
        decompressed ==
            IF ~decrypted.ok THEN decrypted
            ELSE IF suffix(decrypted.path) \in {"gz", "bz2", "xz", "zlib"}
            THEN LET d == decompress_file(decrypted.dir, decrypted.path)
                 IN  IF d.ok
                     THEN [ok |-> TRUE,
                           dir |-> Removed(d.dir, decrypted.path),
                           path |-> d.path]
                     ELSE d
            ELSE decrypted
    IN  IF decompressed.ok
        THEN [ret |-> TRUE,
              dir |-> Removed(decompressed.dir, decompressed.path),
              target |-> decompressed.dir[decompressed.path]]
        ELSE [ret |-> FALSE, dir |-> decompressed.dir, target |-> target]

\* a BackupManager over an empty backup directory, a database at
\* source_db_path and nothing at target_db_path
FileBackupInit ==
    /\ enable_encryption = TRUE
    /\ enable_compression = TRUE
    /\ enable_checksums = TRUE
    /\ StoreInit
    /\ CodecIdle
    /\ RetryIdle
    /\ ConcIdle
    /\ RecordIdle
    /\ AuthIdle
    /\ StorageIdle
    /\ encryption_password \in ManagerPasswords
    /\ source_db \in DbContents
    /\ backup_dir = << >>
    /\ timestamp = 0
    /\ last_backup = [k |-> "none"]
    /\ target_db = [k |-> "none"]
    /\ restored = [k |-> "none"]
    /\ LoginIdle

offFiles ==
    <<flagVars, codecVars, storeVars, retryVars, concVars, recordVars,
      authVars, storageVars, loginVars>>

\* the application writes its database between two backups
WriteSourceDb ==
    /\ \E db \in DbContents \ {source_db} : source_db' = db
    /\ UNCHANGED <<offFiles, encryption_password, backup_dir, timestamp,
                   last_backup, target_db, restored>>

\* create_backup(source_db_path, compress=..., encrypt=...), each call in a
\* second of its own
CreateBackup ==
    /\ timestamp < MaxBackups
    /\ \E compress \in BOOLEAN, encrypt \in BOOLEAN :
          LET made == create_backup(backup_dir, source_db,
                                    encryption_password, timestamp + 1,
                                    compress, encrypt)
          IN  /\ backup_dir' = made.dir
              /\ last_backup' =
                    [k |-> "backup", path |-> made.path, source |-> source_db,
                     compress |-> compress, encrypt |-> encrypt]
    /\ timestamp' = timestamp + 1
    /\ restored' = [k |-> "none"]
    /\ UNCHANGED <<offFiles, encryption_password, source_db, target_db>>

\* restore_backup(the path create_backup returned, target_db_path, password)
RestoreBackup ==
    /\ last_backup.k = "backup"
    /\ \E pw \in RestorePasswords :
          LET done == restore_backup(backup_dir, last_backup.path,
                                     encryption_password, pw, target_db)
          IN  /\ backup_dir' = done.dir
              /\ target_db' = done.target
              /\ restored' =
                    [k |-> "returned", ret |-> done.ret, password |-> pw]
    /\ UNCHANGED <<offFiles, encryption_password, source_db, timestamp,
                   last_backup>>

FileBackupNext == WriteSourceDb \/ CreateBackup \/ RestoreBackup

SpecFileBackup == FileBackupInit /\ [][FileBackupNext]_vars

-----------------------------------------------------------------------------
(* AuthService.login (services/auth_service.py 284-367) on one user: the   *)
(* row of users, the user's rows of user_sessions and the clock. A         *)
(* password hash stands for the password it was made from.                 *)

\* max_sessions of the call of line 345
MaxSessions == 5

\* the threshold of record_failed_login (user.py 119)
LockThreshold == 5

\* the default of lock_account (user.py 106)
LockMinutes == 30

\* timedelta(hours=24) of _create_session (372), in minutes
SessionMinutes == 1440

\* the passwords login is called with; the first is the user's own
LoginPasswords == {"admin123", "wrong"}

\* the minutes that pass between two calls
ClockSteps == {15, 30}

\* the last minute followed
MaxTime == 60

\* login calls with the right password followed in one behaviour
MaxLogins == 3

\* User.verify_password (user.py 65-76)
verify_password(u, pw) == u.password_hash # "" /\ pw = u.password_hash

\* an account whose lock no login honours
LockIgnored(u, t) == FALSE

\* User.is_locked (user.py 100-104)
is_locked(u, t) == u.locked_until # << >> /\ t < u.locked_until[1]

\* User.lock_account (106-109) with the default minutes
lock_account(u, t) ==
    [u EXCEPT !.locked_until = <<t + LockMinutes>>,
              !.failed_login_attempts = 0]

\* User.unlock_account (111-114)
unlock_account(u) ==
    [u EXCEPT !.locked_until = << >>, !.failed_login_attempts = 0]

\* User.record_failed_login (116-120)
record_failed_login(u, t) ==
    LET counted == [u EXCEPT !.failed_login_attempts = @ + 1]
    IN  IF counted.failed_login_attempts >= LockThreshold
        THEN lock_account(counted, t) ELSE counted

\* User.record_successful_login (122-126)
record_successful_login(u, t) ==
    unlock_account([u EXCEPT !.last_login = <<t>>,
                             !.failed_login_attempts = 0])

\* the checks of lines 328-342 that end the call before the session limit
\* is looked at, "" when none does
Refusal(u, t, pw) ==
    IF is_locked(u, t) THEN "Account is locked"
    ELSE IF ~u.email_verified THEN "Please verify your email address"
    ELSE IF u.status # "active" THEN "Account is not active"
    ELSE IF ~verify_password(u, pw) THEN "Invalid credentials"
    ELSE ""

\* the row _save_user writes when the call is refused: only a wrong
\* password is recorded (337-339)
RefusedRow(u, t, pw) ==
    IF Refusal(u, t, pw) = "Invalid credentials"
    THEN record_failed_login(u, t) ELSE u

\* _cleanup_expired_sessions (828-841): DELETE ... WHERE expires_at < now
_cleanup_expired_sessions(sessions, t) ==
    SelectSeq(sessions, LAMBDA s : ~(s.expires_at < t))

\* the SELECT COUNT(*) and the comparison of check_session_limits (940-944)
WithinLimit(sessions, max_sessions) == Len(sessions) < max_sessions

\* the SELECT of terminate_oldest_session (1130-1137): the token of the
\* oldest session, if there is one
OldestToken(sessions) ==
    IF sessions = << >> THEN << >> ELSE <<sessions[1].session_token>>

\* DELETE FROM user_sessions WHERE session_token = ? (1140)
DeleteSession(sessions, found) ==
    SelectSeq(sessions, LAMBDA s : <<s.session_token>> # found)

\* terminate_oldest_session (1123-1151)
terminate_oldest_session(sessions) ==
    DeleteSession(sessions, OldestToken(sessions))

\* _create_session (369-391): the INSERT of a session made at time t
_create_session(sessions, token, t) ==
    Append(sessions,
           [session_token |-> token, expires_at |-> t + SessionMinutes,
            created_at |-> t])

\* the token of the session a call makes: secrets.token_urlsafe, never the
\* same twice
NewToken(n) == [issued |-> "login", n |-> n]

\* AuthService.login (284-367) run alone: what it returns, the row of the
\* user and the sessions afterwards
login(u, sessions, t, pw, token) ==
    IF Refusal(u, t, pw) # ""
    THEN [success |-> FALSE, message |-> Refusal(u, t, pw),
          user |-> RefusedRow(u, t, pw), sessions |-> sessions]
    ELSE LET cleaned == _cleanup_expired_sessions(sessions, t)
             room == IF WithinLimit(cleaned, MaxSessions) THEN cleaned
                     ELSE terminate_oldest_session(cleaned)
         IN  [success |-> TRUE, message |-> "Login successful",
              user |-> record_successful_login(u, t),
              sessions |-> _create_session(room, token, t)]

\* the default admin of _create_default_admin (110-129), here with either
\* value of the fields login looks at
UserRows ==
    [password_hash : {"admin123"}, status : {"active", "suspended"},
     email_verified : BOOLEAN, failed_login_attempts : {0},
     locked_until : {<< >>}, last_login : {<< >>}]

\* the sessions a user holds before the calls that are followed: i of them,
\* made at different times of the day before, the oldest first
SessionsBefore(i) ==
    [j \in 1..i |->
        [session_token |-> [issued |-> "before", n |-> j],
         expires_at |-> 15 * j, created_at |-> 15 * j - SessionMinutes]]

\* everything but the state of AuthService
offLogin ==
    <<flagVars, codecVars, storeVars, retryVars, concVars, recordVars,
      authVars, storageVars, fileVars>>

OthersIdle ==
    /\ enable_encryption = TRUE
    /\ enable_compression = TRUE
    /\ enable_checksums = TRUE
    /\ StoreInit
    /\ CodecIdle
    /\ RetryIdle
    /\ ConcIdle
    /\ RecordIdle
    /\ AuthIdle
    /\ StorageIdle
    /\ FilesIdle

\* the constructor (18-30) over a database that holds the default admin and
\* the sessions of earlier runs
LoginInit ==
    /\ OthersIdle
    /\ user_row \in UserRows
    /\ \E i \in 0..MaxSessions : user_sessions = SessionsBefore(i)
    /\ clock = 0
    /\ logins_started = 0
    /\ login_ret = [k |-> "none"]
    /\ wrong_streak = 0
    /\ login_pc = [th \in LoginThreads |-> "idle"]
    /\ login_local = [th \in LoginThreads |-> NoLocals]

\* time passes
Tick ==
    /\ \E step \in ClockSteps :
          /\ clock + step <= MaxTime
          /\ clock' = clock + step
    /\ UNCHANGED <<offLogin, user_row, user_sessions, logins_started,
                   login_ret, wrong_streak, login_pc, login_local>>

\* one call of login, from its first line to its return
LoginCall ==
    /\ \E pw \in LoginPasswords :
          LET ret == login(user_row, user_sessions, clock, pw,
                           NewToken(logins_started + 1))
          IN  /\ ret.success => logins_started < MaxLogins
              /\ user_row' = ret.user
              /\ user_sessions' = ret.sessions
              /\ logins_started' =
                    IF ret.success THEN logins_started + 1
                    ELSE logins_started
              /\ login_ret' =
                    [k |-> "returned", password |-> pw,
                     success |-> ret.success, message |-> ret.message]
              /\ wrong_streak' =
                    IF ret.success THEN 0
                    ELSE IF pw = user_row.password_hash THEN wrong_streak
                    ELSE IF wrong_streak < LockThreshold
                    THEN wrong_streak + 1
                    ELSE LockThreshold + 1
    /\ UNCHANGED <<offLogin, clock, login_pc, login_local>>

LoginNext == Tick \/ LoginCall

SpecLogin == LoginInit /\ [][LoginNext]_vars

-----------------------------------------------------------------------------
(* Two callers inside AuthService.login at once. Every method opens a      *)
(* connection of its own and nothing but SQLite orders the calls, so a     *)
(* step is one SQL statement with its commit.                              *)

\* an active, verified user who holds at most max_sessions sessions
SessionsInit ==
    /\ OthersIdle
    /\ user_row \in {u \in UserRows : u.status = "active" /\ u.email_verified}
    /\ \E i \in 0..MaxSessions : user_sessions = SessionsBefore(i)
    /\ clock = 0
    /\ logins_started = 0
    /\ login_ret = [k |-> "none"]
    /\ wrong_streak = 0
    /\ login_pc = [th \in LoginThreads |-> "idle"]
    /\ login_local = [th \in LoginThreads |-> NoLocals]

\* lines 300-342 with the right password: the SELECT of the user and the
\* checks on the loaded User
LoginFind(th) ==
    /\ login_pc[th] = "idle"
    /\ logins_started < MaxLogins
    /\ Refusal(user_row, clock, user_row.password_hash) = ""
    /\ logins_started' = logins_started + 1
    /\ login_local' =
          [login_local EXCEPT ![th] =
              [k |-> "call", user |-> user_row,
               token |-> NewToken(logins_started + 1), oldest |-> << >>]]
    /\ login_pc' = [login_pc EXCEPT ![th] = "cleanup"]
    /\ UNCHANGED <<offLogin, user_row, user_sessions, clock, login_ret,
                   wrong_streak>>

\* check_session_limits (931-949): the DELETE of the expired sessions
LoginCleanup(th) ==
    /\ login_pc[th] = "cleanup"
    /\ user_sessions' = _cleanup_expired_sessions(user_sessions, clock)
    /\ login_pc' = [login_pc EXCEPT ![th] = "count"]
    /\ UNCHANGED <<offLogin, user_row, clock, logins_started, login_ret,
                   wrong_streak, login_local>>

\* check_session_limits: the SELECT COUNT(*) and line 345
LoginCount(th) ==
    /\ login_pc[th] = "count"
    /\ login_pc' =
          [login_pc EXCEPT ![th] =
              IF WithinLimit(user_sessions, MaxSessions) THEN "save"
              ELSE "select"]
    /\ UNCHANGED <<offLogin, user_row, user_sessions, clock, logins_started,
                   login_ret, wrong_streak, login_local>>

\* terminate_oldest_session: the SELECT of the oldest session (1130-1137)
LoginSelectOldest(th) ==
    /\ login_pc[th] = "select"
    /\ login_local' =
          [login_local EXCEPT ![th].oldest = OldestToken(user_sessions)]
    /\ login_pc' =
          [login_pc EXCEPT ![th] =
              IF OldestToken(user_sessions) = << >> THEN "save"
              ELSE "delete"]
    /\ UNCHANGED <<offLogin, user_row, user_sessions, clock, logins_started,
                   login_ret, wrong_streak>>

\* terminate_oldest_session: the DELETE by token and the commit (1140-1141)
LoginDeleteOldest(th) ==
    /\ login_pc[th] = "delete"
    /\ user_sessions' = DeleteSession(user_sessions, login_local[th].oldest)
    /\ login_pc' = [login_pc EXCEPT ![th] = "save"]
    /\ UNCHANGED <<offLogin, user_row, clock, logins_started, login_ret,
                   wrong_streak, login_local>>

\* lines 354-356: record_successful_login on the loaded User and _save_user
LoginSaveUser(th) ==
    /\ login_pc[th] = "save"
    /\ user_row' = record_successful_login(login_local[th].user, clock)
    /\ login_pc' = [login_pc EXCEPT ![th] = "create"]
    /\ UNCHANGED <<offLogin, user_sessions, clock, logins_started, login_ret,
                   wrong_streak, login_local>>

\* line 359: _create_session, and the return
LoginCreateSession(th) ==
    /\ login_pc[th] = "create"
    /\ user_sessions' =
          _create_session(user_sessions, login_local[th].token, clock)
    /\ login_pc' = [login_pc EXCEPT ![th] = "idle"]
    /\ login_local' = [login_local EXCEPT ![th] = NoLocals]
    /\ UNCHANGED <<offLogin, user_row, clock, logins_started, login_ret,
                   wrong_streak>>

SessionsNext ==
    \/ Tick
    \/ \E th \in LoginThreads :
          \/ LoginFind(th)
          \/ LoginCleanup(th)
          \/ LoginCount(th)
          \/ LoginSelectOldest(th)
          \/ LoginDeleteOldest(th)
          \/ LoginSaveUser(th)
          \/ LoginCreateSession(th)

SpecSessions == SessionsInit /\ [][SessionsNext]_vars

-----------------------------------------------------------------------------
(* Claims on the codec *)

CurrentFlags == <<enable_encryption, enable_compression>>

\* C1: a dict or list encoded under one configuration decodes to the
\* original value under every other configuration, without re-encoding.
C1_CrossConfigurationReadable ==
    (stage = "decoded" /\ plain.t \in {"dict", "list"}
        /\ written_under # CurrentFlags)
    => decoded = plain

\* C2: with the same flags at encode and decode time, every dict, list and
\* string (the empty ones included) decodes to itself.
C2_RoundTripSameConfiguration ==
    (stage = "decoded" /\ plain.t \in {"dict", "list", "str"}
        /\ written_under = CurrentFlags)
    => decoded = plain

\* C24: a payload written by _secure_data for a dict or list under flags
\* (e1, c1) is decoded by _unsecure_data to the original value under the
\* flags (e2, c2) exactly when e1 implies e2 and c1 implies c2; in every
\* other case _unsecure_data returns a string of still-encoded text.
C24_ExactReadabilityCondition ==
    (stage = "decoded" /\ plain.t \in {"dict", "list"})
    => IF /\ written_under[1] => enable_encryption
          /\ written_under[2] => enable_compression
       THEN decoded = plain
       ELSE /\ decoded.t = "str"
            /\ TextDepth(decoded.s) > 0

\* C17: _unsecure_data tries (current encryption, current compression),
\* (no encryption, current compression), (current encryption, no
\* compression), (neither) in this order, and the candidate it accepts is
\* one whose decrypt step, decompress step and JSON parse all succeeded: a
\* candidate whose text is not JSON is passed over for the next one.
C17_FallbackAcceptsParsedOnly ==
    /\ attempts(enable_encryption, enable_compression)
          = << <<enable_encryption, enable_compression>>,
               <<FALSE, enable_compression>>,
               <<enable_encryption, FALSE>>, <<FALSE, FALSE>> >>
    /\ (stage = "decoded" /\ payload # Empty)
          => LET cands == attempts(enable_encryption, enable_compression)
                 i == ReturnsAt(payload, cands, 1)
                 text == CandidateText(payload, cands[i][1], cands[i][2])
             IN  i # 0 => /\ text.ok
                          /\ json_loads(text.r).ok
                          /\ decoded = json_loads(text.r).r

-----------------------------------------------------------------------------
(* Claims on the store *)

\* what load_app_data returns when its scope does not fail
Loaded ==
    load_app_data(rows, table_exists, enable_encryption, enable_compression,
                  "none")

\* C3: save_app_data is all-or-nothing: a call that returns False leaves
\* every row of app_data as it was, and a call that returns True has stored
\* every section of its argument, encoded under the active configuration.
C3_SaveAllOrNothing ==
    [][ last'.op = "save" =>
          IF last'.ret
          THEN \A key \in DOMAIN last'.arg.f :
                  rows'[key] =
                     _secure_data(SectionInput(key, last'.arg.f[key]),
                                  enable_encryption, enable_compression).r
          ELSE rows' = rows ]_vars

\* a save that raised in its second section, after the INSERT of theme_mode,
\* and left the theme_mode row clear_all_data had written
C3_Witness ==
    /\ last.op = "save"
    /\ ~last.ret
    /\ ~Serializable(last.arg.f["handovers"])
    /\ rows["theme_mode"] =
          _secure_data(Str(Raw("light")), enable_encryption,
                       enable_compression).r

\* C4: whenever update_security_settings returns success, every stored
\* section is encoded under the new configuration and load_app_data returns
\* for each section the value it returned before the call.
C4_UpdateReencodesEverything ==
    [][ (last'.op = "update" /\ last'.ret) =>
          /\ \A key \in DOMAIN Loaded :
                rows'[key] =
                   _secure_data(SectionInput(key, Loaded[key]),
                                enable_encryption', enable_compression').r
          /\ load_app_data(rows', table_exists', enable_encryption',
                           enable_compression', "none") = Loaded ]_vars

\* C5: if the re-save step of update_security_settings fails, the call
\* reports failure and the flags are the same as before the call.
C5_FailedResaveKeepsConfiguration ==
    [][ (last'.op = "update" /\ last'.arg.resaved /\ last'.fault # "none") =>
          /\ ~last'.ret
          /\ flagVars' = flagVars ]_vars

CorruptKeys == {key \in Keys : rows[key] = Corrupt}

StoredKeys == {key \in Keys : rows[key] # Absent}

\* C6: with exactly one corrupted payload in the store, load_app_data
\* returns exactly the other sections, with their saved values, and the
\* corrupted section's key is absent from the result.
C6_CorruptedSectionOmitted ==
    (last.op = "load" /\ last.fault = "none" /\ Cardinality(CorruptKeys) = 1)
    => /\ DOMAIN last.out.f = StoredKeys \ CorruptKeys
       /\ \A key \in StoredKeys \ CorruptKeys :
             _secure_data(SectionInput(key, last.out.f[key]),
                          enable_encryption, enable_compression).r
                = rows[key]

\* no candidate of _unsecure_data gets through its decrypt step, its
\* decompress step and json.loads on this payload
Undecodable(secured_data) ==
    LET cands == attempts(enable_encryption, enable_compression)
    IN  \A i \in 1 .. Len(cands) :
           LET text == CandidateText(secured_data, cands[i][1], cands[i][2])
           IN  IF text.ok THEN ~json_loads(text.r).ok ELSE TRUE

UndecodableKeys ==
    {key \in Keys : rows[key] \notin {Absent, Empty}
            /\ Undecodable(rows[key])}

\* C18: when update_security_settings runs (without a failing connection)
\* while a stored section is undecodable under every fallback candidate,
\* the call succeeds and the stored payload of that section is exactly what
\* it was: neither rewritten nor re-encoded.
C18_UndecodableSectionFrozen ==
    [][ (last'.op = "update" /\ last'.fault = "none"
           /\ last'.arg.loadFault = "none" /\ UndecodableKeys # {})
        => /\ last'.ret
           /\ \A key \in UndecodableKeys : rows'[key] = rows[key] ]_vars

C7_RestoreReproducesSnapshot ==
    (last.op = "restore" /\ last.ret /\ last.arg.clean)
    => Loaded = snapshot.app_data

\* a file backup_database can have written: an encrypted, compressed JSON
\* dict that has an app_data entry
WellFormedArtifact(file) ==
    /\ file.k = "enc"
    /\ file.of.k = "gz"
    /\ file.of.of.k = "json"
    /\ file.of.of.v.t = "dict"
    /\ "app_data" \in DOMAIN file.of.of.v.f

\* C8: restore_database is all-or-nothing: when a step fails (file missing,
\* decryption, decompression, parse, no app_data, the final save) it returns
\* False and every row of app_data is unchanged; save is called only after
\* the app_data presence check passed.
C8_RestoreAllOrNothing ==
    [][ last'.op = "restore" =>
          /\ ~last'.ret => rows' = rows
          /\ (~WellFormedArtifact(last'.arg.file) \/ last'.fault # "none")
                => ~last'.ret
          /\ last'.arg.saved => WellFormedArtifact(last'.arg.file) ]_vars

\* the final save of a restore failed in a statement of its block, in a
\* store whose rows differ from the artifact's snapshot
C8_Witness ==
    /\ last.op = "restore"
    /\ ~last.ret
    /\ last.arg.saved
    /\ last.fault = "execute"
    /\ last.arg.file = backup_file
    /\ Loaded # snapshot.app_data

\* C23: the artifact's whole-file compression and encryption do not depend
\* on the runtime flags: an artifact backup_database wrote under one pair of
\* flags is accepted by restore_database under every pair (same password),
\* and after the restore every section of the manifest's app_data is stored
\* so that it decodes to the manifest's value.
C23_ArtifactIndependentOfFlags ==
    [][ (last'.op = "restore" /\ last'.fault = "none"
            /\ backup_file # NoFile /\ last'.arg.file = backup_file)
        => /\ last'.ret
           /\ LET app_data == ReadManifest(backup_file).r.f
              IN  \A key \in DOMAIN app_data :
                     _unsecure_data(rows'[key], enable_encryption,
                                    enable_compression) = app_data[key] ]_vars

-----------------------------------------------------------------------------
(* Claims on the scoped connection *)

\* C9: when every acquisition attempt reports "database is locked", the
\* scoped connection makes exactly max_retries attempts (5 by default),
\* then fails with the lock error, never enters the caller's block, and it
\* cannot wait forever: attempts are bounded and it is never stuck.
C9_BoundedRetryThenBusy ==
    /\ attempts_made <= max_retries
    /\ pc # "done" => ENABLED RetryNext
    /\ (pc = "done" /\ all_locked)
          => /\ attempts_made = max_retries
             /\ Len(sleeps) = max_retries - 1
             /\ result = "locked"
             /\ block_runs = 0

\* the default five attempts, all locked, with the four waits between them
C9_Witness ==
    /\ pc = "done"
    /\ all_locked
    /\ max_retries = DefaultMaxRetries
    /\ attempts_made = 5
    /\ result = "locked"
    /\ block_runs = 0

\* C20: only lock contention is retried: when an acquisition or operation
\* raises an error that is not "database is locked" (another
\* OperationalError, any other exception), _get_connection_with_retry ends
\* on that attempt with that error: no sleep and no further acquisition
\* attempt follows.
C20_OnlyLockContentionRetried ==
    /\ [][ (raised' \in Errors \ {"locked"} /\ pc # pc')
           => /\ pc' = "done"
              /\ result' = raised'
              /\ sleeps' = sleeps
              /\ attempt' = attempt ]_vars
    /\ [](pc = "done" => ~ENABLED RetryNext)

\* a failure other than the lock, met after two locked attempts, ended the
\* call on the third
C20_Witness ==
    /\ pc = "done"
    /\ raised = "operational"
    /\ result = "operational"
    /\ attempts_made = 3
    /\ Len(sleeps) = 2
    /\ max_retries = DefaultMaxRetries

\* the with-statement has been left: the generator ended, or contextlib
\* raised RuntimeError over a generator that yielded again
CallReturned == pc \in {"done", "suspended"}

\* C19: on every exit path of the scoped connection (block succeeds, block
\* raises, acquisition fails, retries exhausted) the connection is closed
\* once the call has returned, and the block's writes are committed exactly
\* when the block completed without an error.
C19_ClosedAndCommittedIffBlockClean ==
    /\ [](CallReturned => conn # "open")
    /\ [][(pc = "commit") <=> (tx' = "committed")]_vars

\* C21: with retry_delay = 100 ms the wait after the k-th failed attempt
\* (k = 0, 1, 2, ...) is 100 * 2^k ms; an always-locked store gives the
\* waits 100, 200, 400, 800 ms between the 5 default attempts, and there is
\* no wait after the last failed attempt.
C21_BackoffSchedule ==
    /\ \A k \in 1 .. Len(sleeps) : sleeps[k] = 100 * 2 ^ (k - 1)
    /\ Len(sleeps) <= max_retries - 1
    /\ (pc = "done" /\ all_locked /\ max_retries = 5)
          => sleeps = <<100, 200, 400, 800>>

\* five locked attempts with the four waits between them
C21_Witness ==
    /\ pc = "done"
    /\ all_locked
    /\ attempts_made = 5
    /\ Len(sleeps) = 4
    /\ sleeps[4] = 800

\* the operation that used the scoped connection has returned: the
\* generator has ended, or was finalised after contextlib gave up on it
OperationEnded == pc = "done"

\* C26: the caller's block runs at most once per scoped connection: after a
\* "database is locked" error (or any other) raised inside the block or by
\* the commit, also on a non-final attempt, the block is not entered again;
\* the operation ends as a failure with nothing committed and no connection
\* left open.
C26_BlockRunsAtMostOnce ==
    /\ block_runs <= 1
    /\ (exited /\ tx # "committed")
          => /\ block_runs = 1
             /\ pc \notin {"block", "commit"}
             /\ tx = "rolled back"
             /\ OperationEnded
                   => /\ result \notin {"none", "returned"}
                      /\ conn # "open"

\* the block raised the lock error on the first of several attempts, the
\* generator waited, connected again and yielded a second time
C26_Witness ==
    /\ OperationEnded
    /\ exited
    /\ raised = "locked"
    /\ block_runs = 1
    /\ attempts_made = 2
    /\ Len(sleeps) = 1
    /\ result = "RuntimeError"
    /\ conn = "closed"

-----------------------------------------------------------------------------
(* Claims on concurrent calls *)

\* every section thread t wrote is the encoding of its value under one and
\* the same pair of flags
UniformlyEncoded(t) ==
    \E e \in BOOLEAN, c \in BOOLEAN :
       \A key \in DOMAIN thread_data[t] :
          thread_written[t][key] =
             _secure_data(SectionInput(key, thread_data[t][key]), e, c).r

\* C10: update_security_settings is exclusive with respect to a concurrent
\* save_app_data: no save encodes some of its sections under the old flags
\* and others under the new ones, and once both calls have returned every
\* stored section decodes, under the final flags, to a value a caller saved.
C10_UpdateExcludesSaves ==
    /\ (thread_pc["save"] = "done" /\ thread_ret["save"] = "True")
          => UniformlyEncoded("save")
    /\ (\A t \in Threads : thread_pc[t] = "done")
          => \A key \in StoredKeys :
                _unsecure_data(rows[key], enable_encryption,
                               enable_compression)
                   \in {SectionInput(key, empty_data.f[key]),
                        SectionInput(key, ConcSaveInput.f[key])}

-----------------------------------------------------------------------------
(* Further claims on the store *)

C12_BackupSurfacesFailures ==
    [][ last'.op = "backup" =>
          /\ last'.ret => ReadManifest(backup_file').r.f = Loaded
          /\ last'.fault # "none" =>
                (~last'.ret /\ backup_file' = backup_file) ]_vars

\* C13: clear_all_data writes empty values and keeps the table: after it
\* returned True the app_data table exists, load_app_data returns the empty
\* list for each list section clear_all_data knows and "light" for
\* theme_mode, and a following save_app_data succeeds.
C13_ClearWritesEmptyValues ==
    (last.op = "clear" /\ last.ret)
    => /\ table_exists
       /\ \A key \in ClearKeys \cap Keys :
             /\ key \in DOMAIN Loaded
             /\ Loaded[key] = IF key = "theme_mode" THEN Str(Raw("light"))
                              ELSE EmptyList
       /\ \A app_data \in SaveInputs :
             Serializable(app_data) => Saved(app_data, "none", 0, 0).ret

\* a clear that succeeded over stored sections, with encryption switched off
C13_Witness ==
    /\ last.op = "clear"
    /\ last.ret
    /\ ~enable_encryption
    /\ enable_compression
    /\ rows["handovers"] = compress_string(Json(EmptyList))

\* C14: decoding never depends on security metadata: load_app_data
\* returns the map the app_data rows and the flags determine, whether the
\* security_metadata rows are present, absent or stale (so two stores with
\* the same app_data rows return the same map).
C14_LoadIgnoresMetadata ==
    (last.op = "load" /\ last.fault = "none") => last.out.f = Loaded

\* a load that returned a section whose metadata row holds another checksum
C14_Witness ==
    /\ last.op = "load"
    /\ last.fault = "none"
    /\ "handovers" \in DOMAIN last.out.f
    /\ security_metadata["handovers"] = MetaRow(List(<<Obj>>), FALSE, FALSE)
    /\ security_metadata["benches"] = NoMeta
    /\ "benches" \in DOMAIN last.out.f

-----------------------------------------------------------------------------
(* Claims on SecureStorageManager *)

\* C15: checksum sensitivity: a payload verifies against its own hash, a
\* payload that differs from it in one byte does not verify against that
\* hash, and SecureStorageManager refuses to decode the modified record.
C15_ChecksumSensitivity ==
    /\ record_stage \in {"stored", "read"}
          => (verify_hash(Bytes(encrypted_data), checksum) <=> modified = 0)
    /\ record_stage = "read"
          => record_result = IF modified = 0 THEN "decoded" ELSE "refused"

\* a record whose last byte was changed was read and refused
C15_Witness ==
    /\ record_stage = "read"
    /\ modified = 1
    /\ Len(encrypted_data) = MaxLen
    /\ record_result = "refused"

-----------------------------------------------------------------------------
(* Claims on the administration handlers *)

GatedHandlers ==
    {"backup_data", "restore_database_from_backup", "clear_database"}

\* C16: database operations are admin-only: has_permission('all') holds
\* exactly for the admin role; for manager, user, viewer and with nobody
\* logged in, the backup, restore and clear handlers refuse before any call
\* of SecureDatabaseManager (the store and the backup file stay as they
\* were); manager keeps read, write, export and backup, user keeps read and
\* write, viewer keeps read.
C16_DatabaseOperationsAdminOnly ==
    /\ \A role \in Roles : has_permission(role, "all") <=> role = "admin"
    /\ \A permission \in {"read", "write", "export", "backup"} :
          has_permission("manager", permission)
    /\ \A permission \in {"read", "write"} :
          has_permission("user", permission)
    /\ has_permission("viewer", "read")
    /\ [](dialog # "none" => current_user = "admin")
    /\ [][ (last' # last /\ last'.op \in GatedHandlers /\ current_user # "admin")
           => /\ ~last'.ret
              /\ last'.arg.calls = 0
              /\ UNCHANGED <<rows, table_exists, security_metadata,
                             backup_file, dialog>> ]_vars

\* a manager, who holds the backup permission, was refused the backup while
\* the store held data
C16_Witness ==
    /\ last.op = "backup_data"
    /\ last.arg.user = "manager"
    /\ last.arg.calls = 0
    /\ ~last.ret
    /\ rows["handovers"] # Absent

-----------------------------------------------------------------------------
(* Claims on SecureStorageManager *)

\* the rows of handovers whose payload was encrypted under the key of pw
UnderPassword(pw) ==
    {id \in DOMAIN handovers_table :
        /\ handovers_table[id].encrypted_data.k = "fernet"
        /\ handovers_table[id].encrypted_data.key = _derive_key(pw)}

\* C22: change_password only replaces the key: it leaves every stored
\* record payload unchanged; afterwards a record encrypted under the old
\* password fails to decrypt and get_handovers skips it without failing,
\* and a record written after the change decrypts under the new password.
C22_ChangePasswordKeepsPayloads ==
    /\ [][storage_op' = "change_password"
            => handovers_table' = handovers_table]_vars
    /\ [](enable_encryption
            => Decodable(handovers_table, enable_encryption,
                         enable_compression, password)
                  = UnderPassword(password))
    /\ []((enable_encryption /\ storage_op = "get_handovers")
            => /\ DOMAIN listed = UnderPassword(password)
               /\ \A id \in DOMAIN listed :
                     listed[id].status =
                        handovers_table[id].encrypted_data.of.of.status)
    /\ [][(enable_encryption /\ storage_op' = "add_handover")
            => \E id \in DOMAIN handovers_table' \ DOMAIN handovers_table :
                  id \in Decodable(handovers_table', enable_encryption,
                                   enable_compression, password)]_vars

\* the sample record is still stored under the first password, a record was
\* added after the change, and get_handovers returned the new one only
C22_Witness ==
    /\ enable_encryption
    /\ storage_op = "get_handovers"
    /\ password = "pw2"
    /\ UnderPassword("pw1") = {"1"}
    /\ UnderPassword("pw2") # {}
    /\ DOMAIN listed = UnderPassword("pw2")

-----------------------------------------------------------------------------
(* Claims on BackupManager *)

\* restore_backup was last called with the password the manager was built
\* with (None for a manager without one)
RestoredWithSamePassword ==
    /\ restored.k = "returned"
    /\ restored.password = encryption_password

\* C28: for every combination of the compress and encrypt flags,
\* restore_backup applied to the file create_backup returned, with the same
\* password, returns True and writes to the target path a database file
\* equal to the source database at backup time.
C28_FileBackupRoundTrip ==
    RestoredWithSamePassword
        => /\ restored.ret = TRUE
           /\ target_db.k = last_backup.source.k
           /\ target_db = last_backup.source

-----------------------------------------------------------------------------
(* Claims on AuthService *)

\* the sessions of the user that have not expired
Unexpired == {i \in 1..Len(user_sessions) : clock <= user_sessions[i].expires_at}

\* C29: starting from a user with at most 5 sessions, after any sequence
\* and any interleaving of login calls for that user, the user has at most
\* 5 unexpired sessions in user_sessions.
C29_AtMostFiveSessions == Cardinality(Unexpired) <= MaxSessions

\* the user is active and has verified the email address
ActiveVerified == user_row.status = "active" /\ user_row.email_verified

\* the account carries a lock that has not expired
LockRunning ==
    user_row.locked_until # << >> /\ clock < user_row.locked_until[1]

\* C30: for an active, email-verified user, the fifth consecutive login with
\* a wrong password leaves the account locked; every login made while the
\* lock has not expired is refused and creates no session, whatever the
\* password; a successful login sets failed_login_attempts to 0 and clears
\* the lock.
C30_LockoutAfterFiveFailures ==
    /\ [][(ActiveVerified /\ wrong_streak = LockThreshold - 1
              /\ wrong_streak' = LockThreshold)
            => LockRunning']_vars
    /\ [][(LockRunning /\ clock' = clock)
            => /\ login_ret'.success = FALSE
               /\ user_sessions' = user_sessions]_vars
    /\ [][(IF clock' = clock THEN login_ret'.success ELSE FALSE)
            => /\ user_row'.failed_login_attempts = 0
               /\ user_row'.locked_until = << >>]_vars

\* five wrong passwords in a row locked the account and the login that
\* followed, with the right password, was refused
C30_Witness ==
    /\ ActiveVerified
    /\ LockRunning
    /\ wrong_streak = LockThreshold
    /\ login_ret.k = "returned"
    /\ login_ret.password = user_row.password_hash
    /\ login_ret.success = FALSE
    /\ login_ret.message = "Account is locked"

=============================================================================
